---------------------------- MODULE Spec2Model ----------------------------
(***************************************************************************)
(* Model of the protocol gateway's transport layer (src/src/requester.js): *)
(* FingerprintRequester.request, the antigravity_fetch /                   *)
(* antigravity_fetchStream wrappers with StreamResponse, and the           *)
(* non-streaming exchange generateAssistantResponseNoStream with           *)
(* handleApiError and the signature cache write.                           *)
(*                                                                         *)
(* Bytes are the integers 0..255, a Buffer is a sequence of bytes and a    *)
(* JavaScript string is a sequence of code points (all in the BMP, so the  *)
(* length of the sequence is the string's .length).                        *)
(***************************************************************************)
EXTENDS Integers, Sequences, FiniteSets, TLC

\* ------------------------------------------------------------------------
\* Bounds of the model
\* ------------------------------------------------------------------------

\* how many offsets the subprocess' stdout is split at (MaxSplits + 1 chunks)
MaxSplits == 1

\* how many offsets the subprocess' stderr is split at
MaxErrSplits == 1

\* ------------------------------------------------------------------------
\* Characters
\* ------------------------------------------------------------------------

CR == 13
LF == 10
SP == 32
COLON == 58
SLASH == 47
DOT == 46
\* U+FFFD, what the UTF-8 decoder puts in place of an invalid sequence
REPLACEMENT == 65533

CRLF == <<CR, LF>>
CRLFCRLF == <<CR, LF, CR, LF>>

IsDigit(c) == c \in 48..57

IsContinuation(b) == b \in 128..191

\* ------------------------------------------------------------------------
\* String and Buffer primitives of the JavaScript runtime
\* ------------------------------------------------------------------------

\* String.prototype.substring(n) and substring(0, n)
DropFirst(s, n) == IF n >= Len(s) THEN <<>> ELSE SubSeq(s, n + 1, Len(s))

TakeFirst(s, n) ==
  IF n <= 0 THEN <<>> ELSE IF n >= Len(s) THEN s ELSE SubSeq(s, 1, n)

StartsWith(s, pat) == Len(s) >= Len(pat) /\ SubSeq(s, 1, Len(pat)) = pat

\* String.prototype.indexOf: 0-based index of the first occurrence, or -1
IndexOf(s, pat) ==
  LET hits == {i \in 0..(Len(s) - Len(pat)) : SubSeq(s, i + 1, i + Len(pat)) = pat}
  IN IF hits = {} THEN -1 ELSE CHOOSE i \in hits : \A j \in hits : i <= j

Includes(s, pat) == IndexOf(s, pat) # -1

\* String.prototype.split with a non-empty separator
RECURSIVE Split(_, _)
Split(s, sep) ==
  LET i == IndexOf(s, sep)
  IN IF i = -1 THEN <<s>>
     ELSE <<TakeFirst(s, i)>> \o Split(DropFirst(s, i + Len(sep)), sep)

\* Array.prototype.join
RECURSIVE Join(_, _)
Join(parts, sep) ==
  IF parts = <<>> THEN <<>>
  ELSE IF Len(parts) = 1 THEN parts[1]
  ELSE parts[1] \o sep \o Join(Tail(parts), sep)

\* Array.prototype.join('') / Buffer.concat
RECURSIVE Concat(_)
Concat(chunks) == IF chunks = <<>> THEN <<>> ELSE Head(chunks) \o Concat(Tail(chunks))

ToLowerCase(s) == [i \in 1..Len(s) |-> IF s[i] \in 65..90 THEN s[i] + 32 ELSE s[i]]

\* length of the longest prefix of s whose characters satisfy the test
RECURSIVE DigitRun(_)
DigitRun(s) == IF s # <<>> /\ IsDigit(Head(s)) THEN 1 + DigitRun(Tail(s)) ELSE 0

RECURSIVE VersionRun(_)
VersionRun(s) ==
  IF s # <<>> /\ (IsDigit(Head(s)) \/ Head(s) = DOT) THEN 1 + VersionRun(Tail(s)) ELSE 0

RECURSIVE DecimalValue(_)
DecimalValue(digits) ==
  IF digits = <<>> THEN 0
  ELSE DecimalValue(TakeFirst(digits, Len(digits) - 1)) * 10 + (digits[Len(digits)] - 48)

NaN == -1

\* parseInt of a string without sign or leading blanks: the value of the
\* leading digits, NaN when there are none
ParseInt(s) == IF DigitRun(s) = 0 THEN NaN ELSE DecimalValue(TakeFirst(s, DigitRun(s)))

\* Buffer.prototype.toString('utf8'): an invalid or truncated sequence
\* decodes to U+FFFD.  Lead bytes F0..F4 do not occur in the modelled inputs.
RECURSIVE Utf8Decode(_)
Utf8Decode(b) ==
  IF b = <<>> THEN <<>>
  ELSE LET h == Head(b) IN
    IF h < 128 THEN <<h>> \o Utf8Decode(Tail(b))
    ELSE IF h \in 194..223
      THEN IF Len(b) >= 2 /\ IsContinuation(b[2])
           THEN <<(h - 192) * 64 + (b[2] - 128)>> \o Utf8Decode(DropFirst(b, 2))
           ELSE <<REPLACEMENT>> \o Utf8Decode(Tail(b))
    ELSE IF h \in 224..239
      THEN IF Len(b) >= 2 /\ IsContinuation(b[2])
                /\ (h = 224 => b[2] >= 160) /\ (h = 237 => b[2] <= 159)
           THEN IF Len(b) >= 3 /\ IsContinuation(b[3])
                THEN <<(h - 224) * 4096 + (b[2] - 128) * 64 + (b[3] - 128)>>
                       \o Utf8Decode(DropFirst(b, 3))
                ELSE <<REPLACEMENT>> \o Utf8Decode(DropFirst(b, 2))
           ELSE <<REPLACEMENT>> \o Utf8Decode(Tail(b))
    ELSE <<REPLACEMENT>> \o Utf8Decode(Tail(b))

\* Buffer.from(string): the UTF-8 encoding of the string
RECURSIVE Utf8Encode(_)
Utf8Encode(s) ==
  IF s = <<>> THEN <<>>
  ELSE LET c == Head(s) IN
    (IF c < 128 THEN <<c>>
     ELSE IF c < 2048 THEN <<192 + (c \div 64), 128 + (c % 64)>>
     ELSE <<224 + (c \div 4096), 128 + ((c \div 64) % 64), 128 + (c % 64)>>)
    \o Utf8Encode(Tail(s))

RECURSIVE ByteSum(_)
ByteSum(b) == IF b = <<>> THEN 0 ELSE Head(b) + ByteSum(Tail(b))

\* zlib.gunzip, reduced to a framing that can fail: the two magic bytes
\* 1f 8b, the payload, and one trailing check byte (the payload's sum modulo
\* 256, in place of CRC32 and ISIZE).
GzipMagic == <<31, 139>>

GunzipOk(buffer) ==
  /\ Len(buffer) >= 3
  /\ StartsWith(buffer, GzipMagic)
  /\ buffer[Len(buffer)] = ByteSum(SubSeq(buffer, 3, Len(buffer) - 1)) % 256

GunzipResult(buffer) == SubSeq(buffer, 3, Len(buffer) - 1)

\* ------------------------------------------------------------------------
\* FingerprintRequester.request: parsing of the subprocess' stdout
\* ------------------------------------------------------------------------

\* "HTTP/"
HttpSlash == <<72, 84, 84, 80, SLASH>>

\* ": "
ColonSpace == <<COLON, SP>>

\* "OK"
TextOK == <<79, 75>>

\* "content-encoding", "content-length", "gzip"
ContentEncoding == <<99, 111, 110, 116, 101, 110, 116, 45, 101, 110, 99, 111, 100, 105, 110, 103>>
ContentLength == <<99, 111, 110, 116, 101, 110, 116, 45, 108, 101, 110, 103, 116, 104>>
TextGzip == <<103, 122, 105, 112>>

\* the characters the regular expression's `.` does not match
IsLineTerminator(c) == c \in {LF, CR, 8232, 8233}

RECURSIVE DotRun(_)
DotRun(s) == IF s # <<>> /\ ~IsLineTerminator(Head(s)) THEN 1 + DotRun(Tail(s)) ELSE 0

\* one attempt of /HTTP\/[\d.]+ (\d+) (.+)/ at the 0-based position i.  The
\* greedy runs cannot give characters back: the character that has to follow
\* each run (a blank) is not a member of the run's class.
StatusMatchAt(line, i) ==
  LET afterHttp == DropFirst(line, i + Len(HttpSlash))
      version == VersionRun(afterHttp)
      afterVersion == DropFirst(afterHttp, version)
      afterBlank1 == DropFirst(afterVersion, 1)
      digits == DigitRun(afterBlank1)
      afterDigits == DropFirst(afterBlank1, digits)
      afterBlank2 == DropFirst(afterDigits, 1)
      reason == DotRun(afterBlank2)
  IN [ok |-> /\ StartsWith(DropFirst(line, i), HttpSlash)
             /\ version >= 1
             /\ afterVersion # <<>> /\ Head(afterVersion) = SP
             /\ digits >= 1
             /\ afterDigits # <<>> /\ Head(afterDigits) = SP
             /\ reason >= 1,
      code |-> TakeFirst(afterBlank1, digits),
      text |-> TakeFirst(afterBlank2, reason)]

\* lines[0].match(...): the leftmost position where the expression matches
StatusMatch(line) ==
  LET hits == {i \in 0..Len(line) : StatusMatchAt(line, i).ok}
  IN IF hits = {} THEN [ok |-> FALSE, code |-> <<>>, text |-> <<>>]
     ELSE StatusMatchAt(line, CHOOSE i \in hits : \A j \in hits : i <= j)

\* responseHeaders[key] = value on an object whose keys keep insertion order
HeaderSet(headers, key, value) ==
  IF \E i \in 1..Len(headers) : headers[i][1] = key
  THEN [i \in 1..Len(headers) |->
          IF headers[i][1] = key THEN <<key, value>> ELSE headers[i]]
  ELSE Append(headers, <<key, value>>)

HeaderHas(headers, key) == \E i \in 1..Len(headers) : headers[i][1] = key

HeaderGet(headers, key) ==
  headers[CHOOSE i \in 1..Len(headers) : headers[i][1] = key][2]

\* the loop over lines[1..] of the header part
RECURSIVE ParseHeaderLines(_, _)
ParseHeaderLines(headers, lines) ==
  IF lines = <<>> THEN headers
  ELSE LET parts == Split(Head(lines), ColonSpace)
           key == parts[1]
           value == Join(Tail(parts), ColonSpace)
       IN ParseHeaderLines(
            IF key # <<>> THEN HeaderSet(headers, ToLowerCase(key), value) ELSE headers,
            Tail(lines))

\* parseInt(responseHeaders['content-length']) || 0
ProgressTotal(headers) ==
  IF ~HeaderHas(headers, ContentLength) THEN 0
  ELSE LET n == ParseInt(HeaderGet(headers, ContentLength))
       IN IF n = NaN THEN 0 ELSE n

\* the locals of the promise executor
InitialParse ==
  [headersParsed |-> FALSE,
   responseHeaders |-> <<>>,
   responseStatus |-> 200,
   responseStatusText |-> TextOK,
   headerBuffer |-> <<>>,
   bodyChunks |-> <<>>,
   totalLoaded |-> 0]

ProgressEvent(p, chunkStr) ==
  [loaded |-> p.totalLoaded,
   total |-> ProgressTotal(p.responseHeaders),
   chunk |-> chunkStr,
   status |-> p.responseStatus]

\* the branch of the stdout handler taken while the headers are not parsed
ParseHeaderChunk(p, chunk) ==
  LET headerBuffer == p.headerBuffer \o Utf8Decode(chunk)
      headerEndIndex == IndexOf(headerBuffer, CRLFCRLF)
      headerPart == TakeFirst(headerBuffer, headerEndIndex)
      bodyPart == DropFirst(headerBuffer, headerEndIndex + 4)
      lines == Split(headerPart, CRLF)
      statusMatch == StatusMatch(lines[1])
      parsed == [p EXCEPT
        !.headerBuffer = headerBuffer,
        !.responseStatus = IF statusMatch.ok THEN ParseInt(statusMatch.code) ELSE 200,
        !.responseStatusText = IF statusMatch.ok THEN statusMatch.text ELSE TextOK,
        !.responseHeaders = ParseHeaderLines(p.responseHeaders, Tail(lines)),
        !.headersParsed = TRUE]
      withBody == [parsed EXCEPT
        !.bodyChunks = Append(parsed.bodyChunks, Utf8Encode(bodyPart)),
        !.totalLoaded = parsed.totalLoaded + Len(bodyPart)]
  IN IF headerEndIndex = -1
     THEN [p |-> [p EXCEPT !.headerBuffer = headerBuffer], progress |-> <<>>]
     ELSE IF bodyPart # <<>>
     THEN [p |-> withBody, progress |-> <<ProgressEvent(withBody, bodyPart)>>]
     ELSE [p |-> parsed, progress |-> <<>>]

\* the branch taken once the headers are parsed
ParseBodyChunk(p, chunk) ==
  LET chunkStr == Utf8Decode(chunk)
      next == [p EXCEPT
        !.bodyChunks = Append(p.bodyChunks, chunk),
        !.totalLoaded = p.totalLoaded + Len(chunk)]
  IN [p |-> next, progress |-> <<ProgressEvent(next, chunkStr)>>]

\* proc.stdout.on('data'): the new locals and the progress events to deliver
OnStdoutData(p, chunk) ==
  IF ~p.headersParsed THEN ParseHeaderChunk(p, chunk) ELSE ParseBodyChunk(p, chunk)

\* ------------------------------------------------------------------------
\* What the subprocess can do: raw responses, error texts, exit codes
\* ------------------------------------------------------------------------

\* "HTTP/1.1 200 OK\r\nA: b\r\n\r\n" and the body "h\u00e9" (68 c3 a9)
RespText ==
  <<72, 84, 84, 80, 47, 49, 46, 49, 32, 50, 48, 48, 32, 79, 75, 13, 10, 65,
  58, 32, 98, 13, 10, 13, 10, 104, 195, 169>>

\* "HTTP/1.1 404 NF\r\n\r\n" and the body "\u00e9" (c3 a9)
RespNotFound ==
  <<72, 84, 84, 80, 47, 49, 46, 49, 32, 52, 48, 52, 32, 78, 70, 13, 10, 13,
  10, 195, 169>>

\* "HTTP/1.1 500 E\r\n\r\nx"
RespServerError ==
  <<72, 84, 84, 80, 47, 49, 46, 49, 32, 53, 48, 48, 32, 69, 13, 10, 13, 10,
  120>>

\* "HTTP/1.1 200 OK\r\nContent-Encoding: GZIP\r\n\r\n" and a well-formed gzip body
\* whose payload is "a"
RespGzip ==
  <<72, 84, 84, 80, 47, 49, 46, 49, 32, 50, 48, 48, 32, 79, 75, 13, 10, 67,
  111, 110, 116, 101, 110, 116, 45, 69, 110, 99, 111, 100, 105, 110, 103,
  58, 32, 71, 90, 73, 80, 13, 10, 13, 10, 31, 139, 97, 97>>

\* the same response with a corrupted check byte
RespGzipCorrupt ==
  <<72, 84, 84, 80, 47, 49, 46, 49, 32, 50, 48, 48, 32, 79, 75, 13, 10, 67,
  111, 110, 116, 101, 110, 116, 45, 69, 110, 99, 111, 100, 105, 110, 103,
  58, 32, 71, 90, 73, 80, 13, 10, 13, 10, 31, 139, 97, 0>>

\* the well-formed raw responses of the model
RawResponses == {RespText, RespNotFound, RespServerError, RespGzip, RespGzipCorrupt}

\* the sets of at most k split offsets inside a text of length n
RECURSIVE OffsetSets(_, _)
OffsetSets(n, k) ==
  IF k = 0 THEN {{}}
  ELSE LET smaller == OffsetSets(n, k - 1)
       IN smaller \cup {S \cup {o} : S \in smaller, o \in 1..(n - 1)}

\* the chunks of text when it is cut after each offset of the set
RECURSIVE SplitAt(_, _)
SplitAt(text, offsets) ==
  IF offsets = {} THEN <<text>>
  ELSE LET last == CHOOSE o \in offsets : \A q \in offsets : q <= o
       IN SplitAt(TakeFirst(text, last), offsets \ {last}) \o <<DropFirst(text, last)>>

Chunkings(text, k) ==
  IF text = <<>> THEN {<<>>} ELSE {SplitAt(text, O) : O \in OffsetSets(Len(text), k)}

\* stderr texts, as sequences of tokens: the protocol's JSON object, a
\* truncated JSON object, and a text that is not JSON
StderrJson == <<"{", "error", ":", "boom", ",", "error_type", ":", "TIMEOUT", "}">>
StderrTruncated == <<"{", "error", ":">>
StderrPlain == <<"panic", ":", "boom">>
StderrTexts == {<<>>, StderrJson, StderrTruncated, StderrPlain}

\* the exit code Node reports for a process that was ended by a signal (null)
KilledBySignal == -1
\* the exit code Node reports after a failed spawn (the negated errno)
SpawnFailed == -2
\* no exit code yet
NoCode == -3

FailureCodes == {1, 3, 4}

\* a plan is what the subprocess does when nothing stops it: the chunks it
\* writes to stdout and stderr, and the code it exits with
SuccessPlans ==
  UNION {{[stdout |-> c, stderr |-> <<>>, exit |-> 0, spawns |-> TRUE] :
            c \in Chunkings(r, MaxSplits)} : r \in RawResponses}

FailureStdouts == {<<>>, <<TakeFirst(RespText, 9)>>, <<RespText>>}

FailurePlans ==
  UNION {{[stdout |-> o, stderr |-> e, exit |-> x, spawns |-> TRUE] :
            o \in FailureStdouts, e \in Chunkings(t, MaxErrSplits), x \in FailureCodes} :
          t \in StderrTexts}

SpawnFailurePlan == [stdout |-> <<>>, stderr |-> <<>>, exit |-> SpawnFailed, spawns |-> FALSE]

Plans == SuccessPlans \cup FailurePlans \cup {SpawnFailurePlan}

\* ------------------------------------------------------------------------
\* The calls: request() called directly with an abort signal and a progress
\* callback, antigravity_fetch, antigravity_fetchStream
\* ------------------------------------------------------------------------

Calls == {"request", "fetch", "fetchStream"}

\* config.signal: only a direct caller of request() passes one
HasSignal(call) == call = "request"

\* config.skipGzipDecompress
SkipGzipDecompress(call) == call = "fetchStream"

\* config.onDownloadProgress
HasProgress(call) == call \in {"request", "fetchStream"}

\* a streaming call that keeps the default status validation
ValidateStatusDefault(call, status) == status >= 200 /\ status < 300

\* config.validateStatus: the default of request(), or antigravity_fetchStream's
\* function that always returns true
ValidateStatus(call, status) ==
  IF call = "fetchStream" THEN TRUE ELSE status >= 200 /\ status < 300

\* ------------------------------------------------------------------------
\* Errors and responses
\* ------------------------------------------------------------------------

NoResponse == [data |-> <<>>, status |-> 0, statusText |-> <<>>, headers |-> <<>>]

NoError ==
  [code |-> "none", message |-> <<>>, errorType |-> <<>>, exitCode |-> NoCode,
   response |-> NoResponse]

MakeError(code, message) == [NoError EXCEPT !.code = code, !.message = message]

Pending == [state |-> "pending", error |-> NoError, response |-> NoResponse]

Rejected(error) == [state |-> "rejected", error |-> error, response |-> NoResponse]

Resolved(response) == [state |-> "resolved", error |-> NoError, response |-> response]

\* a timeout that is reported as a network error
TimeoutErrorAsNetwork == MakeError("ERR_NETWORK", <<"Request timeout">>)

\* the callback of setTimeout builds this error
TimeoutError == MakeError("ECONNABORTED", <<"Request timeout">>)

\* the abort listener builds this error
AbortError == MakeError("ERR_CANCELED", <<"Request aborted">>)

\* an 'error' handler that reports the failed spawn as a network failure
SpawnErrorAsNetwork == MakeError("ERR_NETWORK", <<"Failed to spawn process: ", "ENOENT">>)

\* the 'error' handler builds this error
SpawnError == MakeError("ERR_SPAWN", <<"Failed to spawn process: ", "ENOENT">>)

\* JSON.parse on the token texts: an object of string members, or a failure
RECURSIVE JsonMembers(_)
JsonMembers(tokens) ==
  IF Len(tokens) = 3 /\ tokens[2] = ":" /\ tokens[1] \notin {"{", "}", ":", ","}
       /\ tokens[3] \notin {"{", "}", ":", ","}
  THEN [ok |-> TRUE, members |-> <<<<tokens[1], tokens[3]>>>>]
  ELSE IF Len(tokens) > 4 /\ tokens[4] = ","
  THEN LET first == JsonMembers(TakeFirst(tokens, 3))
           rest == JsonMembers(DropFirst(tokens, 4))
       IN [ok |-> first.ok /\ rest.ok,
           members |-> IF first.ok /\ rest.ok THEN first.members \o rest.members ELSE <<>>]
  ELSE [ok |-> FALSE, members |-> <<>>]

JsonParse(text) ==
  IF Len(text) >= 2 /\ text[1] = "{" /\ text[Len(text)] = "}"
  THEN IF Len(text) = 2 THEN [ok |-> TRUE, members |-> <<>>]
       ELSE JsonMembers(SubSeq(text, 2, Len(text) - 1))
  ELSE [ok |-> FALSE, members |-> <<>>]

\* a property of the parsed object, undefined (here the empty text) if absent
JsonField(members, name) ==
  IF \E i \in 1..Len(members) : members[i][1] = name
  THEN <<members[CHOOSE i \in 1..Len(members) :
           members[i][1] = name /\ \A j \in (i + 1)..Len(members) : members[j][1] # name][2]>>
  ELSE <<>>

ExitCodeText(code) == IF code = KilledBySignal THEN "null" ELSE ToString(code)

\* an exit code mapping without the configuration class
ExitErrorCodeWithoutConfig(code) == IF code = 3 THEN "ECONNABORTED" ELSE "ERR_NETWORK"

\* error.code for a non-zero exit code
ExitErrorCode(code) ==
  IF code = 3 THEN "ECONNABORTED" ELSE IF code = 4 THEN "ERR_CONFIG" ELSE "ERR_NETWORK"

\* an error message that is never taken from the JSON object
ExitErrorMessageUnparsed(code, stderrText) ==
  IF stderrText = <<>> THEN <<"Process exited with code ", ExitCodeText(code)>>
  ELSE stderrText

\* errorInfo.error for a non-zero exit code and the text collected from stderr
ExitErrorMessage(code, stderrText) ==
  IF stderrText = <<>> THEN <<"Process exited with code ", ExitCodeText(code)>>
  ELSE IF JsonParse(stderrText).ok THEN JsonField(JsonParse(stderrText).members, "error")
  ELSE stderrText

\* errorInfo.error_type
ExitErrorType(code, stderrText) ==
  IF stderrText # <<>> /\ JsonParse(stderrText).ok
  THEN JsonField(JsonParse(stderrText).members, "error_type")
  ELSE <<"UNKNOWN_ERROR">>

\* the error the 'close' handler rejects with when code !== 0
ExitError(code, stderrText) ==
  [NoError EXCEPT
     !.code = ExitErrorCode(code),
     !.message = ExitErrorMessage(code, stderrText),
     !.errorType = ExitErrorType(code, stderrText),
     !.exitCode = code]

\* does the 'close' handler decompress the body
NeedsGunzip(call, headers) ==
  /\ ~SkipGzipDecompress(call)
  /\ HeaderHas(headers, ContentEncoding)
  /\ Includes(ToLowerCase(HeaderGet(headers, ContentEncoding)), TextGzip)

\* the body after the gzip step: the decompressed bytes, or the bytes as they
\* are when decompression fails
AfterGunzip(bodyBuffer) ==
  IF GunzipOk(bodyBuffer) THEN GunzipResult(bodyBuffer) ELSE bodyBuffer

\* a 'close' handler that takes what was buffered as the body when the
\* headers were never completed
CloseOutcomeOfBuffer(call, p, bodyBuffer) ==
  LET response == [data |-> IF p.headersParsed THEN Utf8Decode(bodyBuffer) ELSE p.headerBuffer,
                   status |-> p.responseStatus,
                   statusText |-> p.responseStatusText,
                   headers |-> p.responseHeaders]
  IN IF ~ValidateStatus(call, p.responseStatus)
     THEN Rejected([NoError EXCEPT
            !.code = IF p.responseStatus >= 500 THEN "ERR_BAD_RESPONSE" ELSE "ERR_BAD_REQUEST",
            !.message = <<"Request failed with status code ", ToString(p.responseStatus)>>,
            !.response = response])
     ELSE Resolved(response)

\* the rest of the 'close' handler for exit code 0: the outcome of the request
CloseOutcome(call, p, bodyBuffer) ==
  LET response == [data |-> Utf8Decode(bodyBuffer),
                   status |-> p.responseStatus,
                   statusText |-> p.responseStatusText,
                   headers |-> p.responseHeaders]
  IN IF ~ValidateStatus(call, p.responseStatus)
     THEN Rejected([NoError EXCEPT
            !.code = IF p.responseStatus >= 500 THEN "ERR_BAD_RESPONSE" ELSE "ERR_BAD_REQUEST",
            !.message = <<"Request failed with status code ", ToString(p.responseStatus)>>,
            !.response = response])
     ELSE Resolved(response)

\* ------------------------------------------------------------------------
\* State
\* ------------------------------------------------------------------------

\* how many times text() is called on one StreamResponse
MaxTextCalls == 1

VARIABLES
  raw,             \* everything the subprocess has to write to stdout
  call,            \* which entry point made the request
  registered,      \* whether the caller registered onStart/onData/onEnd/onError
  onEndThrows,     \* whether the registered onEnd callback throws
  procOut,         \* chunks the subprocess has still to write to stdout
  procErr,         \* chunks the subprocess has still to write to stderr
  procExit,        \* the code the subprocess exits with when it is not killed
  procState,       \* "unspawned", "running" or "exited"
  exitCode,        \* the code of the exited subprocess
  killSent,        \* proc.kill() has been called
  stdoutPipe,      \* chunks written to stdout and not yet emitted as 'data'
  stderrPipe,      \* chunks written to stderr and not yet emitted as 'data'
  timeoutId,       \* the timer: "armed", "cleared" or "fired"
  aborted,         \* the abort signal has fired
  parse,           \* the locals headersParsed .. totalLoaded of the executor
  stderrData,      \* the local stderrData
  closeState,      \* the 'close' handler: "open", "gunzip" (suspended), "closed"
  promise,         \* the promise returned by request()
  settledBy,       \* the handler whose resolve/reject settled the promise
  events,          \* timeout, abort, error and close events in order of occurrence
  activeProcesses, \* this.activeProcesses
  progressLog,     \* the arguments of the calls of onDownloadProgress
  sr,              \* the StreamResponse of antigravity_fetchStream
  calls,           \* the calls of the callbacks registered on the StreamResponse
  textPromises,    \* the promises returned by StreamResponse.text()
  config,          \* the switches of config.js that govern the signature cache
  exPc,            \* where each exchange is in generateAssistantResponseNoStream
  exRequest,       \* the request each exchange was given
  exError,         \* the error postJsonAndParse threw in each exchange
  exRaised,        \* the error handleApiError threw in each exchange
  exData,          \* the parsed response of each exchange
  signatureCache,  \* the signature cache, by "sessionId, model"
  cacheWrites,     \* how often each exchange has called setSignature
  disabledTokens,  \* how often tokenManager.disableCurrentToken was called
  rqUrl,           \* config.url of each concurrent call of request()
  rqPc,            \* each concurrent call: "idle", "thrown", "running", "closed"
  rqProc,          \* the const proc of each call's promise executor
  rqParse,         \* the locals headersParsed .. totalLoaded of each call
  rqTimer,         \* the timer of each call
  rqResult,        \* what each call's promise was settled with
  procs,           \* the subprocesses spawned so far
  rqActive,        \* this.activeProcesses of the requester the calls share
  exProcessor,     \* per streaming exchange: how often processor.close() was called
                   \* and whether a call threw
  encPc,           \* the encoding of one request: "idle", "encoding", "done"
  encProtocol,     \* the client protocol of the request: "openai" or "claude"
  encThinking,     \* enableThinking
  encHasTools,     \* hasTools: the request defines tools
  encMessages,     \* the messages of the request (openaiMessages, claudeMessages)
  encContents,     \* antigravityMessages, the canonical contents built so far
  encTurns,        \* per assistant message: the message, the signature context
                   \* it was encoded with and the parts it put into the contents
  encReads,        \* how often the encoding has read the signature cache
  clock,           \* Date.now()
  modelListCache,  \* the module's modelListCache
  modelListCacheTime, \* the module's modelListCacheTime
  mlPc,            \* where each call of getAvailableModels is
  mlNow,           \* the const now of each call of getAvailableModels
  mlError,         \* the error fetchRawModels caught in each call
  mlResult,        \* what each call of getAvailableModels returned or threw
  mlTokenRequests, \* how often each call has called tokenManager.getToken
  mlUpstreamRequests, \* how often each call has contacted the upstream
  mlOp             \* the last operation on the model list cache

exVars ==
  <<config, exPc, exRequest, exError, exRaised, exData, signatureCache, cacheWrites,
    disabledTokens, exProcessor>>

requestVars ==
  <<raw, call, registered, onEndThrows, procOut, procErr, procExit, procState, exitCode, killSent,
    stdoutPipe, stderrPipe, timeoutId, aborted, parse, stderrData, closeState,
    promise, settledBy, events, activeProcesses, progressLog, sr, calls,
    textPromises>>

callVars == <<rqUrl, rqPc, rqProc, rqParse, rqTimer, rqResult, procs, rqActive>>

encVars ==
  <<encPc, encProtocol, encThinking, encHasTools, encMessages, encContents, encTurns,
    encReads>>

mlVars ==
  <<clock, modelListCache, modelListCacheTime, mlPc, mlNow, mlError, mlResult,
    mlTokenRequests, mlUpstreamRequests, mlOp>>

vars == <<requestVars, exVars, callVars, encVars, mlVars>>

procVars == <<procOut, procErr, procExit, procState, exitCode, stdoutPipe, stderrPipe>>

streamVars == <<sr, calls, textPromises>>

\* the subprocess of the request
Proc == 1

\* StreamResponse's constructor; status 0 stands for null, and the null
\* _finalText for the empty text that text() turns it into
NewStreamResponse ==
  [status |-> 0, headers |-> <<>>, chunks |-> <<>>, started |-> FALSE,
   ended |-> FALSE, error |-> NoError, finalText |-> <<>>, textPromiseResolve |-> 0]

\* ------------------------------------------------------------------------
\* The signature cache and the non-streaming exchange
\* ------------------------------------------------------------------------

\* the exchanges that run at the same time
Exchanges == {1, 2}

SessionIds == {"", "s1"}

Models == {"gemini-3-pro-high", "gemini-3-pro-image"}

\* the key of a cache entry
CacheKey(sessionId, model) == <<sessionId, model>>

CacheKeys == {CacheKey(s, m) : s \in SessionIds \ {""}, m \in Models}

\* an absent signature or text is the empty string
NoEntry == [signature |-> "", content |-> "", hasTools |-> FALSE, isImageModel |-> FALSE]

\* setSignature: the entry of the key is overwritten
SetSignature(c, sessionId, model, signature, content, hasTools, isImage) ==
  [c EXCEPT ![CacheKey(sessionId, model)] =
     [signature |-> signature, content |-> content, hasTools |-> hasTools,
      isImageModel |-> isImage]]

\* getReasoningSignature and getToolSignature: a read of the entry
GetReasoningSignature(c, sessionId, model) ==
  IF CacheKey(sessionId, model) \in DOMAIN c THEN c[CacheKey(sessionId, model)].signature ELSE ""

GetToolSignature(c, sessionId, model) ==
  IF CacheKey(sessionId, model) \in DOMAIN c THEN c[CacheKey(sessionId, model)].signature ELSE ""

\* isImageModel
IsImageModel(model) == model = "gemini-3-pro-image"

\* the static signatures of getThoughtSignatureForModel / getToolSignatureForModel
FallbackThoughtSignature == "fallback-thought"
FallbackToolSignature == "fallback-tool"

\* a || b on strings
OrElse(a, b) == IF a # "" THEN a ELSE b

\* a context whose fallback tool signature is not gated by the tools
GetSignatureContextUngated(c, sessionId, actualModelName, hasTools) ==
  LET cachedReasoningSig ==
        IF config.useCachedSignature
        THEN GetReasoningSignature(c, sessionId, actualModelName) ELSE ""
      shouldGetCachedToolSig ==
        config.useCachedSignature /\ (~config.cacheOnlyToolSignatures \/ hasTools)
      cachedToolSig ==
        IF shouldGetCachedToolSig
        THEN GetToolSignature(c, sessionId, actualModelName) ELSE ""
      shouldUseFallbackToolSig == config.useFallbackSignature
  IN [reasoningSignature |->
        OrElse(cachedReasoningSig,
               IF config.useFallbackSignature THEN FallbackThoughtSignature ELSE ""),
      toolSignature |->
        OrElse(cachedToolSig,
               IF shouldUseFallbackToolSig THEN FallbackToolSignature ELSE "")]

\* getSignatureContext
GetSignatureContext(c, sessionId, actualModelName, hasTools) ==
  LET cachedReasoningSig ==
        IF config.useCachedSignature
        THEN GetReasoningSignature(c, sessionId, actualModelName) ELSE ""
      shouldGetCachedToolSig ==
        config.useCachedSignature /\ (~config.cacheOnlyToolSignatures \/ hasTools)
      cachedToolSig ==
        IF shouldGetCachedToolSig
        THEN GetToolSignature(c, sessionId, actualModelName) ELSE ""
      shouldUseFallbackToolSig ==
        config.useFallbackSignature /\ (~config.cacheOnlyToolSignatures \/ hasTools)
  IN [reasoningSignature |->
        OrElse(cachedReasoningSig,
               IF config.useFallbackSignature THEN FallbackThoughtSignature ELSE ""),
      toolSignature |->
        OrElse(cachedToolSig,
               IF shouldUseFallbackToolSig THEN FallbackToolSignature ELSE "")]

Configs ==
  [useCachedSignature : BOOLEAN, useFallbackSignature : BOOLEAN,
   cacheOnlyToolSignatures : BOOLEAN]

NoRequest ==
  [sessionId |-> "", model |-> "gemini-3-pro-high", hasTools |-> FALSE,
   reasoningSignature |-> "", toolSignature |-> ""]

\* what parseGeminiCandidateParts found in a response: the reasoning
\* signature and text, and the thoughtSignature of each tool call
ParsedResponses ==
  {[reasoningSignature |-> "", reasoningContent |-> "", toolCalls |-> <<>>],
   [reasoningSignature |-> "sig-r", reasoningContent |-> "thinking", toolCalls |-> <<>>],
   [reasoningSignature |-> "sig-r", reasoningContent |-> "", toolCalls |-> <<"">>],
   [reasoningSignature |-> "", reasoningContent |-> "", toolCalls |-> <<"sig-a", "">>],
   [reasoningSignature |-> "sig-r", reasoningContent |-> "thinking",
    toolCalls |-> <<"sig-a", "sig-b">>]}

\* the parsed response together with the answer shouldCacheSignature gives
\* for it ({ hasTools, isImageModel } and the cache-write switches)
WithPolicy(data, shouldCache) ==
  [reasoningSignature |-> data.reasoningSignature,
   reasoningContent |-> data.reasoningContent,
   toolCalls |-> data.toolCalls,
   shouldCache |-> shouldCache]

NoData ==
  WithPolicy([reasoningSignature |-> "", reasoningContent |-> "", toolCalls |-> <<>>], FALSE)

\* the models of the requests: the two models, or none
RequestModels == Models \cup {""}

\* the errors postJsonAndParse can throw: the kinds of the transport, and the
\* upstream statuses with or without the caller-permission marker in the body
ExchangeErrors ==
  {[code |-> "ECONNABORTED", status |-> 0, marker |-> FALSE],
   [code |-> "ERR_CANCELED", status |-> 0, marker |-> FALSE],
   [code |-> "ERR_NETWORK", status |-> 0, marker |-> FALSE],
   [code |-> "ERR_BAD_REQUEST", status |-> 403, marker |-> TRUE],
   [code |-> "ERR_BAD_REQUEST", status |-> 403, marker |-> FALSE],
   [code |-> "ERR_BAD_REQUEST", status |-> 400, marker |-> TRUE],
   [code |-> "ERR_BAD_RESPONSE", status |-> 500, marker |-> FALSE]}

NoExchangeError == [code |-> "none", status |-> 0, marker |-> FALSE]

\* the stream line processor of an exchange: close() not called yet
NoProcessor == [closes |-> 0, threw |-> FALSE]

\* handleApiError has not thrown
NoApiError == [message |-> "", status |-> 0]

\* no exchange has started
ExchangesIdle ==
  /\ config = [useCachedSignature |-> TRUE, useFallbackSignature |-> TRUE,
               cacheOnlyToolSignatures |-> FALSE]
  /\ exPc = [e \in Exchanges |-> "idle"]
  /\ exRequest = [e \in Exchanges |-> NoRequest]
  /\ exError = [e \in Exchanges |-> NoExchangeError]
  /\ exRaised = [e \in Exchanges |-> NoApiError]
  /\ exProcessor = [e \in Exchanges |-> NoProcessor]
  /\ exData = [e \in Exchanges |-> NoData]
  /\ signatureCache = [k \in CacheKeys |-> NoEntry]
  /\ cacheWrites = [e \in Exchanges |-> 0]
  /\ disabledTokens = 0

\* the calls of getAvailableModels that run at the same time
ModelCalls == {1, 2}

\* modelListCache = null
NoList == [source |-> "none", ids |-> <<>>, created |-> 0]

\* no call of getAvailableModels is made
ModelListIdle ==
  /\ clock = 0
  /\ modelListCache = NoList
  /\ modelListCacheTime = 0
  /\ mlPc = [m \in ModelCalls |-> "idle"]
  /\ mlNow = [m \in ModelCalls |-> 0]
  /\ mlError = [m \in ModelCalls |-> NoExchangeError]
  /\ mlResult = [m \in ModelCalls |-> NoList]
  /\ mlTokenRequests = [m \in ModelCalls |-> 0]
  /\ mlUpstreamRequests = [m \in ModelCalls |-> 0]
  /\ mlOp = "none"

\* no request is made
RequestIdle ==
  /\ raw = <<>>
  /\ call = "request"
  /\ registered = FALSE
  /\ onEndThrows = FALSE
  /\ procOut = <<>>
  /\ procErr = <<>>
  /\ procExit = 0
  /\ procState = "exited"
  /\ exitCode = 0
  /\ killSent = FALSE
  /\ stdoutPipe = <<>>
  /\ stderrPipe = <<>>
  /\ timeoutId = "cleared"
  /\ aborted = TRUE
  /\ parse = InitialParse
  /\ stderrData = <<>>
  /\ closeState = "closed"
  /\ promise = Pending
  /\ settledBy = "none"
  /\ events = <<>>
  /\ activeProcesses = {}
  /\ progressLog = <<>>
  /\ sr = NewStreamResponse
  /\ calls = <<>>
  /\ textPromises = <<>>

\* the state right after request() has spawned the subprocess and returned
\* the concurrent calls of one requester
Requests == {1, 2}

\* config.url: absent, or one of two addresses
Urls == {"", "u1", "u2"}

\* no concurrent call is made
CallsIdle ==
  /\ rqUrl = [r \in Requests |-> ""]
  /\ rqPc = [r \in Requests |-> "idle"]
  /\ rqProc = [r \in Requests |-> 0]
  /\ rqParse = [r \in Requests |-> InitialParse]
  /\ rqTimer = [r \in Requests |-> "none"]
  /\ rqResult = [r \in Requests |-> Pending]
  /\ procs = <<>>
  /\ rqActive = {}

\* the cache reads of one encoding: none yet
NoReads == [reasoning |-> 0, tool |-> 0, afterPart |-> FALSE]

\* no request is being encoded
EncoderIdle ==
  /\ encPc = "idle"
  /\ encProtocol = "openai"
  /\ encThinking = FALSE
  /\ encHasTools = FALSE
  /\ encMessages = <<>>
  /\ encContents = <<>>
  /\ encTurns = <<>>
  /\ encReads = NoReads

Init ==
  /\ ModelListIdle
  /\ ExchangesIdle
  /\ CallsIdle
  /\ EncoderIdle
  /\ call \in Calls
  /\ registered \in BOOLEAN
  /\ (call # "fetchStream" => registered = FALSE)
  /\ onEndThrows = FALSE
  /\ \E plan \in Plans :
       /\ raw = Concat(plan.stdout)
       /\ procOut = plan.stdout
       /\ procErr = plan.stderr
       /\ procExit = plan.exit
       /\ procState = IF plan.spawns THEN "running" ELSE "unspawned"
  /\ exitCode = NoCode
  /\ killSent = FALSE
  /\ stdoutPipe = <<>>
  /\ stderrPipe = <<>>
  /\ timeoutId = "armed"
  /\ aborted = FALSE
  /\ parse = InitialParse
  /\ stderrData = <<>>
  /\ closeState = "open"
  /\ promise = Pending
  /\ settledBy = "none"
  /\ events = <<>>
  /\ activeProcesses = {Proc}
  /\ progressLog = <<>>
  /\ sr = NewStreamResponse
  /\ calls = <<>>
  /\ textPromises = <<>>

\* ------------------------------------------------------------------------
\* The subprocess and its pipes
\* ------------------------------------------------------------------------

ProcWriteStdout ==
  /\ procState = "running"
  /\ procOut # <<>>
  /\ stdoutPipe' = Append(stdoutPipe, Head(procOut))
  /\ procOut' = Tail(procOut)
  /\ UNCHANGED <<mlVars, exVars, callVars, encVars, raw, call, registered, onEndThrows, procErr, procExit, procState, exitCode, killSent,
                 stderrPipe, timeoutId, aborted, parse, stderrData, closeState,
                 promise, settledBy, events, activeProcesses, progressLog, streamVars>>

ProcWriteStderr ==
  /\ procState = "running"
  /\ procErr # <<>>
  /\ stderrPipe' = Append(stderrPipe, Head(procErr))
  /\ procErr' = Tail(procErr)
  /\ UNCHANGED <<mlVars, exVars, callVars, encVars, raw, call, registered, onEndThrows, procOut, procExit, procState, exitCode, killSent,
                 stdoutPipe, timeoutId, aborted, parse, stderrData, closeState,
                 promise, settledBy, events, activeProcesses, progressLog, streamVars>>

\* the subprocess finishes by itself
ProcExit ==
  /\ procState = "running"
  /\ procOut = <<>>
  /\ procErr = <<>>
  /\ procState' = "exited"
  /\ exitCode' = procExit
  /\ UNCHANGED <<mlVars, exVars, callVars, encVars, raw, call, registered, onEndThrows, procOut, procErr, procExit, killSent, stdoutPipe,
                 stderrPipe, timeoutId, aborted, parse, stderrData, closeState,
                 promise, settledBy, events, activeProcesses, progressLog, streamVars>>

\* the signal of proc.kill() reaches the running subprocess
ProcKilled ==
  /\ procState = "running"
  /\ killSent
  /\ procState' = "exited"
  /\ exitCode' = KilledBySignal
  /\ UNCHANGED <<mlVars, exVars, callVars, encVars, raw, call, registered, onEndThrows, procOut, procErr, procExit, killSent, stdoutPipe,
                 stderrPipe, timeoutId, aborted, parse, stderrData, closeState,
                 promise, settledBy, events, activeProcesses, progressLog, streamVars>>

\* ------------------------------------------------------------------------
\* antigravity_fetchStream and StreamResponse
\* ------------------------------------------------------------------------

CallbackCall(cb, chunk, status, code) ==
  [cb |-> cb, chunk |-> chunk, status |-> status, code |-> code]

\* config.onDownloadProgress of antigravity_fetchStream, for one event
StreamOnProgress(s, ev) ==
  [s EXCEPT !.started = TRUE,
            !.status = IF s.started THEN s.status ELSE ev.status,
            !.chunks = Append(s.chunks, ev.chunk)]

CallsOnProgress(log, s, ev) ==
  IF ~registered THEN log
  ELSE (IF s.started THEN log ELSE Append(log, CallbackCall("onStart", <<>>, ev.status, "none")))
       \o <<CallbackCall("onData", ev.chunk, 0, "none")>>

\* what a throwing onEnd callback throws
OnEndError == MakeError("thrown by onEnd", <<>>)

\* the .then and .catch callbacks of antigravity_fetchStream; an exception
\* of the onEnd callback rejects the promise .then returned, so that the
\* .catch callback runs after it with that exception
StreamSettled(s, outcome) ==
  IF outcome.state = "resolved"
  THEN [s EXCEPT !.headers = outcome.response.headers,
                 !.ended = TRUE,
                 !.finalText = Concat(s.chunks),
                 !.error = IF registered /\ onEndThrows THEN OnEndError ELSE s.error,
                 !.chunks = <<>>]
  ELSE [s EXCEPT !.ended = TRUE, !.error = outcome.error, !.chunks = <<>>]

CallsOnSettled(log, outcome) ==
  IF ~registered THEN log
  ELSE IF outcome.state = "resolved"
  THEN Append(log, CallbackCall("onEnd", <<>>, 0, "none"))
       \o (IF onEndThrows
           THEN <<CallbackCall("onError", <<>>, 0, OnEndError.code)>> ELSE <<>>)
  ELSE Append(log, CallbackCall("onError", <<>>, 0, outcome.error.code))

TextResolved(text) == [state |-> "resolved", text |-> text, error |-> NoError]

TextRejected(error) == [state |-> "rejected", text |-> <<>>, error |-> error]

TextPending == [state |-> "pending", text |-> <<>>, error |-> NoError]

\* a settlement that resolves the pending text() promise and forgets to
\* reject it
TextOnSettledResolveOnly(promises, s, outcome) ==
  IF s.textPromiseResolve = 0 \/ outcome.state # "resolved" THEN promises
  ELSE [promises EXCEPT ![s.textPromiseResolve] = TextResolved(Concat(s.chunks))]

\* _textPromiseResolve(_finalText) / _textPromiseReject(error)
TextOnSettled(promises, s, outcome) ==
  IF s.textPromiseResolve = 0 THEN promises
  ELSE [promises EXCEPT ![s.textPromiseResolve] =
          IF outcome.state = "resolved"
          THEN TextResolved(Concat(s.chunks))
          ELSE TextRejected(outcome.error)]

\* resolve(..) or reject(..) of the request's promise by the handler `by`,
\* followed by the promise's reactions; s is the StreamResponse as the
\* handler leaves it
Settle(outcome, by, s) ==
  LET first == promise.state = "pending"
  IN /\ promise' = IF first THEN outcome ELSE promise
     /\ settledBy' = IF first THEN by ELSE settledBy
     /\ IF first /\ call = "fetchStream"
        THEN /\ sr' = StreamSettled(s, outcome)
             /\ calls' = CallsOnSettled(calls, outcome)
             /\ textPromises' = TextOnSettled(textPromises, s, outcome)
        ELSE /\ sr' = s
             /\ UNCHANGED <<calls, textPromises>>

\* StreamResponse.text()
Text ==
  /\ call = "fetchStream"
  /\ Len(textPromises) < MaxTextCalls
  /\ IF sr.ended
     THEN /\ textPromises' = Append(textPromises,
               IF sr.error # NoError THEN TextRejected(sr.error)
               ELSE TextResolved(sr.finalText))
          /\ sr' = sr
     ELSE /\ textPromises' = Append(textPromises, TextPending)
          /\ sr' = [sr EXCEPT !.textPromiseResolve = Len(textPromises) + 1]
  /\ UNCHANGED <<mlVars, exVars, callVars, encVars, raw, call, registered, onEndThrows, procVars, killSent, timeoutId, aborted, parse,
                 stderrData, closeState, promise, settledBy, events, activeProcesses,
                 progressLog, calls>>

\* ------------------------------------------------------------------------
\* FingerprintRequester.request: the handlers
\* ------------------------------------------------------------------------

\* clearTimeout(timeoutId)
ClearTimeout(t) == IF t = "armed" THEN "cleared" ELSE t

\* a stdout handler that leaves the timer alone
TimerAfterDataKeepsTimer(t, parsedNow) == t

\* the timer after the stdout handler has run: cleared when the handler has
\* just parsed the headers
TimerAfterData(t, parsedNow) == IF parsedNow THEN ClearTimeout(t) ELSE t

\* validateStatus(status) of antigravity_fetchStream records the status
StreamValidated(s, status) ==
  IF call = "fetchStream" THEN [s EXCEPT !.status = status] ELSE s

\* proc.stdout.on('data')
StdoutData ==
  /\ stdoutPipe # <<>>
  /\ closeState = "open"
  /\ \E result \in {OnStdoutData(parse, Head(stdoutPipe))} :
     LET parsedNow == ~parse.headersParsed /\ result.p.headersParsed
         validated == IF parsedNow THEN StreamValidated(sr, result.p.responseStatus) ELSE sr
     IN /\ parse' = result.p
        /\ timeoutId' = TimerAfterData(timeoutId, parsedNow)
        /\ IF result.progress # <<>> /\ HasProgress(call)
           THEN /\ progressLog' = Append(progressLog, result.progress[1])
                /\ IF call = "fetchStream"
                   THEN /\ sr' = StreamOnProgress(validated, result.progress[1])
                        /\ calls' = CallsOnProgress(calls, validated, result.progress[1])
                   ELSE /\ sr' = validated
                        /\ calls' = calls
           ELSE /\ sr' = validated
                /\ UNCHANGED <<progressLog, calls>>
  /\ stdoutPipe' = Tail(stdoutPipe)
  /\ UNCHANGED <<mlVars, exVars, callVars, encVars, raw, call, registered, onEndThrows, procOut, procErr, procExit, procState, exitCode,
                 killSent, stderrPipe, aborted, stderrData, closeState, promise,
                 settledBy, events, activeProcesses, textPromises>>

\* proc.stderr.on('data')
StderrData ==
  /\ stderrPipe # <<>>
  /\ closeState = "open"
  /\ stderrData' = stderrData \o Head(stderrPipe)
  /\ stderrPipe' = Tail(stderrPipe)
  /\ UNCHANGED <<mlVars, exVars, callVars, encVars, raw, call, registered, onEndThrows, procOut, procErr, procExit, procState, exitCode,
                 killSent, stdoutPipe, timeoutId, aborted, parse, closeState, promise,
                 settledBy, events, activeProcesses, progressLog, streamVars>>

\* the callback of setTimeout
TimerFire ==
  /\ timeoutId = "armed"
  /\ timeoutId' = "fired"
  /\ killSent' = TRUE
  /\ events' = Append(events, "timeout")
  /\ Settle(Rejected(TimeoutError), "timeout", sr)
  /\ UNCHANGED <<mlVars, exVars, callVars, encVars, raw, call, registered, onEndThrows, procVars, aborted, parse, stderrData, closeState,
                 activeProcesses, progressLog>>

\* the listener of the signal's 'abort' event
Abort ==
  /\ HasSignal(call)
  /\ ~aborted
  /\ aborted' = TRUE
  /\ killSent' = TRUE
  /\ timeoutId' = ClearTimeout(timeoutId)
  /\ events' = Append(events, "abort")
  /\ Settle(Rejected(AbortError), "abort", sr)
  /\ UNCHANGED <<mlVars, exVars, callVars, encVars, raw, call, registered, onEndThrows, procVars, parse, stderrData, closeState,
                 activeProcesses, progressLog>>

\* proc.on('error'): the subprocess could not be spawned
ProcessError ==
  /\ procState = "unspawned"
  /\ procState' = "exited"
  /\ exitCode' = procExit
  /\ timeoutId' = ClearTimeout(timeoutId)
  /\ events' = Append(events, "error")
  /\ Settle(Rejected(SpawnError), "error", sr)
  /\ UNCHANGED <<mlVars, exVars, callVars, encVars, raw, call, registered, onEndThrows, procOut, procErr, procExit, killSent, stdoutPipe,
                 stderrPipe, aborted, parse, stderrData, closeState, activeProcesses,
                 progressLog>>

\* proc.on('close'), up to its first suspension: Node emits 'close' when the
\* subprocess has ended and its stdout and stderr have been read to the end
Close ==
  /\ procState = "exited"
  /\ stdoutPipe = <<>>
  /\ stderrPipe = <<>>
  /\ closeState = "open"
  /\ timeoutId' = ClearTimeout(timeoutId)
  /\ activeProcesses' = activeProcesses \ {Proc}
  /\ events' = Append(events, "close")
  /\ IF exitCode # 0
     THEN /\ closeState' = "closed"
          /\ Settle(Rejected(ExitError(exitCode, stderrData)), "close", sr)
     ELSE IF NeedsGunzip(call, parse.responseHeaders)
     THEN /\ closeState' = "gunzip"
          /\ UNCHANGED <<promise, settledBy, streamVars>>
     ELSE /\ closeState' = "closed"
          /\ Settle(CloseOutcome(call, parse, Concat(parse.bodyChunks)), "close",
                    StreamValidated(sr, parse.responseStatus))
  /\ UNCHANGED <<mlVars, exVars, callVars, encVars, raw, call, registered, onEndThrows, procVars, killSent, aborted, parse, stderrData,
                 progressLog>>

\* the 'close' handler resumes after `await decompressGzip(bodyBuffer)`
GunzipDone ==
  /\ closeState = "gunzip"
  /\ closeState' = "closed"
  /\ Settle(CloseOutcome(call, parse, AfterGunzip(Concat(parse.bodyChunks))), "close",
            StreamValidated(sr, parse.responseStatus))
  /\ UNCHANGED <<mlVars, exVars, callVars, encVars, raw, call, registered, onEndThrows, procVars, killSent, timeoutId, aborted, parse,
                 stderrData, events, activeProcesses, progressLog>>

Next ==
  \/ ProcWriteStdout
  \/ ProcWriteStderr
  \/ ProcExit
  \/ ProcKilled
  \/ StdoutData
  \/ StderrData
  \/ TimerFire
  \/ Abort
  \/ ProcessError
  \/ Close
  \/ GunzipDone
  \/ Text

Spec == Init /\ [][Next]_vars

\* ------------------------------------------------------------------------
\* Concurrent calls of FingerprintRequester.request on one requester
\* ------------------------------------------------------------------------

\* how many chunk boundaries fall inside the responses of the concurrent
\* calls, all subprocesses together
MaxCallSplits == 1

RECURSIVE SumCuts(_)
SumCuts(ps) == IF ps = <<>> THEN 0 ELSE Head(ps).cuts + SumCuts(Tail(ps))

\* the chunk boundaries that fell inside responses so far
CallSplits == SumCuts(procs)

\* JSON.stringify(requestPayload)
RequestDocument(r, url) == [url |-> url, request |-> r]

\* a subprocess fresh from spawn(): nothing on stdin, no listener yet
NewProc ==
  [stdin |-> <<>>, stdinEnded |-> FALSE, listeners |-> {}, out |-> <<>>,
   emitted |-> <<>>, cuts |-> 0, exited |-> FALSE]

\* a requester that keeps one subprocess and hands it to every call
SpawnPooled(ps) == IF ps = <<>> THEN <<NewProc>> ELSE ps

\* const proc = spawn(this.binaryPath): one more subprocess, the last of ps
Spawn(ps) == Append(ps, NewProc)

\* "HTTP/1.1 404 NF\r\n\r\nno"
RespNotFoundPlain ==
  <<72, 84, 84, 80, 47, 49, 46, 49, 32, 52, 48, 52, 32, 78, 70, 13, 10, 13,
  10, 110, 111>>

\* what the subprocess answers to the request document it reads from stdin
ResponseOf(doc) == IF doc.url = "u1" THEN RespNotFoundPlain ELSE RespServerError

\* the executor's proc.stdout.on(..), proc.stdin.write(..), proc.stdin.end()
\* on the subprocess; it answers the first document it reads
Attach(proc, r, doc) ==
  [proc EXCEPT !.listeners = @ \cup {r},
               !.stdin = Append(@, doc),
               !.stdinEnded = TRUE,
               !.out = IF proc.stdin = <<>> THEN ResponseOf(doc) ELSE @]

\* request(config): the URL check, then the promise executor up to
\* proc.stdin.end()
Request(r) ==
  /\ rqPc[r] = "idle"
  /\ \E url \in Urls :
       /\ rqUrl' = [rqUrl EXCEPT ![r] = url]
       /\ IF url = ""
          THEN /\ rqPc' = [rqPc EXCEPT ![r] = "thrown"]
               /\ UNCHANGED <<rqProc, rqParse, rqTimer, procs, rqActive>>
          ELSE \E spawned \in {Spawn(procs)} :
               /\ rqPc' = [rqPc EXCEPT ![r] = "running"]
               /\ rqProc' = [rqProc EXCEPT ![r] = Len(spawned)]
               /\ rqActive' = rqActive \cup {Len(spawned)}
               /\ rqParse' = [rqParse EXCEPT ![r] = InitialParse]
               /\ rqTimer' = [rqTimer EXCEPT ![r] = "armed"]
               /\ procs' = [spawned EXCEPT ![Len(spawned)] =
                              Attach(@, r, RequestDocument(r, url))]
  /\ UNCHANGED <<mlVars, requestVars, exVars, encVars, rqResult>>

\* a 'data' event of the stdout of subprocess p: the handler of each listener
\* runs on the chunk
CallStdoutData(p) ==
  /\ procs[p].stdinEnded
  /\ procs[p].out # <<>>
  /\ \E n \in 1..Len(procs[p].out) :
       /\ n < Len(procs[p].out) => CallSplits < MaxCallSplits
       /\ procs' = [procs EXCEPT
            ![p].out = DropFirst(@, n),
            ![p].emitted = Append(@, TakeFirst(procs[p].out, n)),
            ![p].cuts = IF n < Len(procs[p].out) THEN @ + 1 ELSE @]
       /\ \E result \in {[r \in procs[p].listeners |->
                             OnStdoutData(rqParse[r], TakeFirst(procs[p].out, n)).p]} :
            /\ rqParse' = [r \in Requests |->
                 IF r \in procs[p].listeners THEN result[r] ELSE rqParse[r]]
            /\ rqTimer' = [r \in Requests |->
                 IF r \in procs[p].listeners
                 THEN TimerAfterData(rqTimer[r],
                        ~rqParse[r].headersParsed /\ result[r].headersParsed)
                 ELSE rqTimer[r]]
  /\ UNCHANGED <<mlVars, requestVars, exVars, encVars, rqUrl, rqPc, rqProc, rqResult, rqActive>>

\* the 'close' event of subprocess p, exited with code 0
CallClose(p) ==
  /\ procs[p].stdinEnded
  /\ procs[p].out = <<>>
  /\ ~procs[p].exited
  /\ procs' = [procs EXCEPT ![p].exited = TRUE]
  /\ rqActive' = rqActive \ {p}
  /\ rqTimer' = [r \in Requests |->
       IF r \in procs[p].listeners THEN ClearTimeout(rqTimer[r]) ELSE rqTimer[r]]
  /\ rqPc' = [r \in Requests |-> IF r \in procs[p].listeners THEN "closed" ELSE rqPc[r]]
  /\ rqResult' = [r \in Requests |->
       IF r \in procs[p].listeners
       THEN CloseOutcome("fetch", rqParse[r], Concat(rqParse[r].bodyChunks))
       ELSE rqResult[r]]
  /\ UNCHANGED <<mlVars, requestVars, exVars, encVars, rqUrl, rqProc, rqParse>>

InitCalls ==
  /\ ModelListIdle
  /\ RequestIdle
  /\ ExchangesIdle
  /\ CallsIdle
  /\ EncoderIdle

NextCalls ==
  \/ \E r \in Requests : Request(r)
  \/ \E p \in 1..Len(procs) : CallStdoutData(p)
  \/ \E p \in 1..Len(procs) : CallClose(p)

SpecCalls == InitCalls /\ [][NextCalls]_vars

\* ------------------------------------------------------------------------
\* generateAssistantResponseNoStream and handleApiError
\* ------------------------------------------------------------------------

\* the request body is encoded: the converters read the signature context
Encode(e) ==
  /\ exPc[e] = "idle"
  /\ \E sessionId \in SessionIds, model \in RequestModels, hasTools \in BOOLEAN :
       LET context == GetSignatureContext(signatureCache, sessionId, model, hasTools)
       IN exRequest' = [exRequest EXCEPT ![e] =
            [sessionId |-> sessionId, model |-> model, hasTools |-> hasTools,
             reasoningSignature |-> context.reasoningSignature,
             toolSignature |-> context.toolSignature]]
  /\ exPc' = [exPc EXCEPT ![e] = "encoded"]
  /\ UNCHANGED <<mlVars, requestVars, callVars, encVars, exRaised, exProcessor, config, exError, exData, signatureCache, cacheWrites,
                 disabledTokens>>

\* generateAssistantResponseNoStream is called and suspends in postJsonAndParse
Post(e) ==
  /\ exPc[e] = "encoded"
  /\ exPc' = [exPc EXCEPT ![e] = "posted"]
  /\ UNCHANGED <<mlVars, requestVars, callVars, encVars, exRaised, exProcessor, config, exRequest, exError, exData, signatureCache,
                 cacheWrites, disabledTokens>>

\* postJsonAndParse returns the parsed response
PostResolves(e) ==
  /\ exPc[e] = "posted"
  /\ \E data \in ParsedResponses, shouldCache \in BOOLEAN :
       exData' = [exData EXCEPT ![e] = WithPolicy(data, shouldCache)]
  /\ exPc' = [exPc EXCEPT ![e] = "parsed"]
  /\ UNCHANGED <<mlVars, requestVars, callVars, encVars, exRaised, exProcessor, config, exRequest, exError, signatureCache, cacheWrites,
                 disabledTokens>>

\* postJsonAndParse throws: the exchange timed out, was cancelled or failed
PostRejects(e) ==
  /\ exPc[e] = "posted"
  /\ \E error \in ExchangeErrors : exError' = [exError EXCEPT ![e] = error]
  /\ exPc' = [exPc EXCEPT ![e] = "failed"]
  /\ UNCHANGED <<mlVars, requestVars, callVars, encVars, exRaised, exProcessor, config, exRequest, exData, signatureCache, cacheWrites,
                 disabledTokens>>

\* a handleApiError that returns instead of throwing
AfterHandleApiErrorReturns == "parsed"

\* where generateAssistantResponseNoStream is after `await handleApiError(..)`:
\* every path of handleApiError throws
AfterHandleApiError == "thrown"

\* a handleApiError that disables the token on every 403
DisablesTokenOnAny403(error) == error.status = 403

\* does handleApiError call tokenManager.disableCurrentToken
DisablesToken(error) == error.status = 403 /\ ~error.marker

\* createApiError(message, status, errorBody) of the path handleApiError takes
ApiError(error) ==
  [message |-> IF error.status = 403
               THEN IF error.marker THEN "context-too-large" ELSE "account-disabled"
               ELSE "request-failed",
   status |-> error.status]

\* the catch block: handleApiError
HandleApiError(e) ==
  /\ exPc[e] = "failed"
  /\ disabledTokens' = IF DisablesToken(exError[e]) THEN disabledTokens + 1 ELSE disabledTokens
  /\ exPc' = [exPc EXCEPT ![e] = AfterHandleApiError]
  /\ exRaised' = [exRaised EXCEPT ![e] = ApiError(exError[e])]
  /\ exRequest' = IF AfterHandleApiError = "thrown"
                  THEN [exRequest EXCEPT ![e] = NoRequest] ELSE exRequest
  /\ UNCHANGED <<mlVars, requestVars, callVars, encVars, exProcessor, config, exError, exData, signatureCache, cacheWrites>>

\* the thoughtSignature of the last tool call that has one, "" if none has
RECURSIVE LastToolSignature(_)
LastToolSignature(toolCalls) ==
  IF toolCalls = <<>> THEN ""
  ELSE IF toolCalls[Len(toolCalls)] # "" THEN toolCalls[Len(toolCalls)]
  ELSE LastToolSignature(SubSeq(toolCalls, 1, Len(toolCalls) - 1))

\* a final signature that prefers the reasoning signature
FinalSignatureReasoningFirst(data) ==
  OrElse(data.reasoningSignature, LastToolSignature(data.toolCalls))

\* finalSignature: the last tool signature, else the reasoning signature
FinalSignature(data) == OrElse(LastToolSignature(data.toolCalls), data.reasoningSignature)

\* a cached content that is the reasoning text as it is
CachedContentAsIs(data) == data.reasoningContent

\* cachedContent: parsed.reasoningContent || ' '
CachedContent(data) == OrElse(data.reasoningContent, " ")

\* the rest of generateAssistantResponseNoStream after a successful exchange
CacheAndReturn(e) ==
  /\ exPc[e] = "parsed"
  /\ \E request \in {exRequest[e]} :
     \E data \in {exData[e]} :
     \E hasTools \in {Len(exData[e].toolCalls) > 0} :
     \E isImage \in {IsImageModel(exRequest[e].model)} :
       IF /\ request.sessionId # "" /\ request.model # "" /\ data.shouldCache
          /\ FinalSignature(data) # ""
       THEN /\ signatureCache' =
                 SetSignature(signatureCache, request.sessionId, request.model,
                              FinalSignature(data), CachedContent(data),
                              hasTools, isImage)
            /\ cacheWrites' = [cacheWrites EXCEPT ![e] = @ + 1]
       ELSE UNCHANGED <<signatureCache, cacheWrites>>
  /\ exPc' = [exPc EXCEPT ![e] = "done"]
  /\ exRequest' = [exRequest EXCEPT ![e] = NoRequest]
  /\ exData' = [exData EXCEPT ![e] = NoData]
  /\ UNCHANGED <<mlVars, requestVars, callVars, encVars, exRaised, exProcessor, config, exError, disabledTokens>>

InitExchange ==
  /\ ModelListIdle
  /\ RequestIdle
  /\ CallsIdle
  /\ EncoderIdle
  /\ config \in Configs
  /\ exPc = [e \in Exchanges |-> "idle"]
  /\ exRequest = [e \in Exchanges |-> NoRequest]
  /\ exError = [e \in Exchanges |-> NoExchangeError]
  /\ exRaised = [e \in Exchanges |-> NoApiError]
  /\ exProcessor = [e \in Exchanges |-> NoProcessor]
  /\ exData = [e \in Exchanges |-> NoData]
  /\ signatureCache = [k \in CacheKeys |-> NoEntry]
  /\ cacheWrites = [e \in Exchanges |-> 0]
  /\ disabledTokens = 0

NextExchange ==
  \E e \in Exchanges :
    \/ Encode(e)
    \/ Post(e)
    \/ PostResolves(e)
    \/ PostRejects(e)
    \/ HandleApiError(e)
    \/ CacheAndReturn(e)

SpecExchange == InitExchange /\ [][NextExchange]_vars

\* ------------------------------------------------------------------------
\* The streaming exchange: generateAssistantResponse
\* ------------------------------------------------------------------------

\* generateAssistantResponse creates the processor and awaits the stream
Stream(e) ==
  /\ exPc[e] = "encoded"
  /\ exPc' = [exPc EXCEPT ![e] = "streaming"]
  /\ exProcessor' = [exProcessor EXCEPT ![e] = NoProcessor]
  /\ UNCHANGED <<mlVars, requestVars, callVars, encVars, exRaised, config, exRequest, exError, exData,
                 signatureCache, cacheWrites, disabledTokens>>

\* runAxiosSseStream / runNativeSseStream returns: the stream ended
StreamEnds(e) ==
  /\ exPc[e] = "streaming"
  /\ exPc' = [exPc EXCEPT ![e] = "done"]
  /\ exRequest' = [exRequest EXCEPT ![e] = NoRequest]
  /\ UNCHANGED <<mlVars, requestVars, callVars, encVars, exRaised, exProcessor, config, exError, exData,
                 signatureCache, cacheWrites, disabledTokens>>

\* runAxiosSseStream / runNativeSseStream throws: the catch block is entered
StreamFails(e) ==
  /\ exPc[e] = "streaming"
  /\ \E error \in ExchangeErrors : exError' = [exError EXCEPT ![e] = error]
  /\ exPc' = [exPc EXCEPT ![e] = "caught"]
  /\ UNCHANGED <<mlVars, requestVars, callVars, encVars, exRaised, exProcessor, config, exRequest, exData,
                 signatureCache, cacheWrites, disabledTokens>>

\* try { processor.close(); } catch { }: close() returns or throws
CloseCalled(processor, threw) ==
  [closes |-> processor.closes + 1, threw |-> processor.threw \/ threw]

\* where the catch block is after a close() that threw, if the exception
\* were not caught
AfterCloseThrewUncaught(threw) == IF threw THEN "thrown" ELSE "failed"

\* where the catch block is after try { processor.close(); } catch { }:
\* at `await handleApiError(..)`
AfterClose(threw) == "failed"

\* the first statement of the catch block
ProcessorClose(e) ==
  /\ exPc[e] = "caught"
  /\ \E threw \in BOOLEAN :
       /\ exProcessor' = [exProcessor EXCEPT ![e] = CloseCalled(@, threw)]
       /\ exPc' = [exPc EXCEPT ![e] = AfterClose(threw)]
       /\ exRaised' = IF AfterClose(threw) = "thrown"
                       THEN [exRaised EXCEPT ![e] = [message |-> "close-failed", status |-> 0]]
                       ELSE exRaised
  /\ UNCHANGED <<mlVars, requestVars, callVars, encVars, config, exRequest, exError, exData,
                 signatureCache, cacheWrites, disabledTokens>>

NextStream ==
  \E e \in Exchanges :
    \/ Encode(e)
    \/ Stream(e)
    \/ StreamEnds(e)
    \/ StreamFails(e)
    \/ ProcessorClose(e)
    \/ HandleApiError(e)

SpecStream == InitExchange /\ [][NextStream]_vars

\* ------------------------------------------------------------------------
\* The request encoders: openaiMessageToAntigravity, claudeMessageToAntigravity
\* ------------------------------------------------------------------------

\* how many messages the conversation of an encoded request has
MaxMessages == 2

\* how many messages a conversation about tool calls and their results has
MaxToolTurns == 3

Protocols == {"openai", "claude"}

\* the session and the model of the encoded request
EncSession == "s1"
EncModel == "gemini-3-pro-high"

\* a message of the client: role, text content (or, when array is TRUE, the
\* items of an array content), the signature on an assistant message (OpenAI
\* message.thoughtSignature, the signature of a Claude thinking item), its
\* tool calls, and the call id of a tool result
Message(role, content, array, items, signature, toolCalls, toolCallId) ==
  [role |-> role, content |-> content, array |-> array, items |-> items,
   thoughtSignature |-> signature, toolCalls |-> toolCalls, toolCallId |-> toolCallId]

\* a tool call of an assistant message (OpenAI tool_calls[i], a Claude
\* tool_use item) with the signature it carries, "" for none
ToolCalls ==
  {[id |-> "t1", name |-> "f", thoughtSignature |-> sig] : sig \in {"", "inbound-tool"}}

\* the assistant messages: text or none, a signature on the message or
\* none, and no or one tool call
AssistantMessages ==
  {Message("assistant", content, FALSE, <<>>, sig, toolCalls, "") :
     content \in {"", "Hi"}, sig \in {"", "inbound-message"},
     toolCalls \in {<<>>} \cup {<<t>> : t \in ToolCalls}}

UserMessage == Message("user", "Hello", FALSE, <<>>, "", <<>>, "")

\* the result of tool call t1 (OpenAI role tool, a Claude tool_result item)
ToolMessage == Message("tool", "42", FALSE, <<>>, "", <<>>, "t1")

Messages == AssistantMessages \cup {UserMessage, ToolMessage}

\* the tool calls of a conversation about tools: two calls of different
\* functions, and a call that uses the id t1 again for another function
NamedToolCalls ==
  {[id |-> "t1", name |-> "f", thoughtSignature |-> ""],
   [id |-> "t1", name |-> "g", thoughtSignature |-> ""],
   [id |-> "t2", name |-> "g", thoughtSignature |-> ""]}

\* its assistant messages: no text, blank text or text, no or one tool call
ToolTurnAssistantMessages ==
  {Message("assistant", content, FALSE, <<>>, "", toolCalls, "") :
     content \in {"", " ", "Hi"},
     toolCalls \in {<<>>} \cup {<<t>> : t \in NamedToolCalls}}

\* the results of the calls t1 and t2
ToolMessages == {Message("tool", "42", FALSE, <<>>, "", <<>>, id) : id \in {"t1", "t2"}}

\* the items of an array content: text, an image the encoder can use (an
\* OpenAI data URI, a Claude base64 source), an image it cannot use
TextItem(text) == [type |-> "text", text |-> text, data |-> ""]
ImageItem(data) == [type |-> "image", text |-> "", data |-> data]

\* the user messages: text, empty text, only an image, text and an image,
\* only an image that cannot be used
UserMessages ==
  {UserMessage,
   Message("user", "", FALSE, <<>>, "", <<>>, ""),
   Message("user", "", TRUE, <<ImageItem("img")>>, "", <<>>, ""),
   Message("user", "", TRUE, <<TextItem("Hello"), ImageItem("img")>>, "", <<>>, ""),
   Message("user", "", TRUE, <<ImageItem("")>>, "", <<>>, "")}

\* role system reaches the user branch of the OpenAI loop
SystemMessage == Message("system", "", FALSE, <<>>, "", <<>>, "")

ToolTurnMessages(protocol) ==
  ToolTurnAssistantMessages \cup ToolMessages \cup UserMessages
    \cup (IF protocol = "openai" THEN {SystemMessage} ELSE {})

\* the conversations of at most n messages
Conversations(messages, n) == UNION {[1..k -> messages] : k \in 0..n}

\* the parts of the canonical contents
Part(kind, text, signature, id, name) ==
  [kind |-> kind, text |-> text, thoughtSignature |-> signature, id |-> id,
   name |-> name]

\* createThoughtPart(text, signature)
CreateThoughtPart(text, signature) ==
  Part("thought", IF text = "" THEN " " ELSE text, signature, "", "")

\* processToolName: a name of the allowed characters is its own safe name
ProcessToolName(name) == name

\* createFunctionCallPart(id, name, args, signature)
CreateFunctionCallPart(id, name, signature) == Part("functionCall", "", signature, id, name)

\* { functionResponse: { id, name, response: { output } } }
FunctionResponsePart(id, name, content) == Part("functionResponse", content, "", id, name)

\* { inlineData: { mimeType, data } }
ImagePart(data) == Part("image", data, "", "", "")

\* { text: content.trimEnd() }
TextPart(text) == Part("text", text, "", "", "")

IsThought(part) == part.kind = "thought"

\* extractImagesFromContent / extractImagesFromClaudeContent over the items
RECURSIVE ExtractItems(_)
ExtractItems(items) ==
  IF items = <<>> THEN [text |-> "", images |-> <<>>]
  ELSE LET rest == ExtractItems(Tail(items))
           item == Head(items)
       IN IF item.type = "text"
          THEN [text |-> item.text \o rest.text, images |-> rest.images]
          ELSE IF item.data # ""
          THEN [text |-> rest.text, images |-> <<ImagePart(item.data)>> \o rest.images]
          ELSE rest

\* extractImagesFromContent / extractImagesFromClaudeContent
ExtractImages(message) ==
  IF message.array THEN ExtractItems(message.items)
  ELSE [text |-> message.content, images |-> <<>>]

\* a || b || c || d on strings
OrElse4(a, b, c, d) == OrElse(a, OrElse(b, OrElse(c, d)))

\* a function-call part that is signed whether or not thinking is enabled
ToolCallSignatureAlways(protocol, enableThinking, toolCall, message, context) ==
  IF protocol = "openai"
  THEN OrElse4(toolCall.thoughtSignature, context.toolSignature,
               message.thoughtSignature, context.reasoningSignature)
  ELSE OrElse4(toolCall.thoughtSignature, context.toolSignature,
               context.reasoningSignature, "")

\* the signature of a function-call part: OpenAI
\* toolCall.thoughtSignature || toolSignature || message.thoughtSignature ||
\* reasoningSignature, Claude item.signature || toolSignature ||
\* reasoningSignature; null when thinking is not enabled
ToolCallSignature(protocol, enableThinking, toolCall, message, context) ==
  IF ~enableThinking THEN ""
  ELSE IF protocol = "openai"
  THEN OrElse4(toolCall.thoughtSignature, context.toolSignature,
               message.thoughtSignature, context.reasoningSignature)
  ELSE OrElse4(toolCall.thoughtSignature, context.toolSignature,
               context.reasoningSignature, "")

\* a thought part that prefers the tool signature to the reasoning signature
ThoughtSignatureToolFirst(message, context) ==
  OrElse(message.thoughtSignature, OrElse(context.toolSignature, context.reasoningSignature))

\* the signature of the thought part:
\* message.thoughtSignature || reasoningSignature || toolSignature
ThoughtSignature(message, context) ==
  OrElse(message.thoughtSignature, OrElse(context.reasoningSignature, context.toolSignature))

\* the tool-call parts of an assistant message
AssistantToolCalls(protocol, enableThinking, message, context) ==
  [i \in 1..Len(message.toolCalls) |->
     CreateFunctionCallPart(message.toolCalls[i].id,
       ProcessToolName(message.toolCalls[i].name),
       ToolCallSignature(protocol, enableThinking, message.toolCalls[i], message, context))]

\* text.trim() === '' for the texts of the conversations
IsBlank(text) == text \in {"", " "}

\* message.content && message.content.trim() !== ''
HasContent(message) == ~IsBlank(message.content)

\* a handler that builds the thought part whether or not thinking is enabled
AssistantPartsAlwaysThinking(enableThinking, message, context) ==
  (IF ThoughtSignature(message, context) # ""
   THEN <<CreateThoughtPart("", ThoughtSignature(message, context))>> ELSE <<>>)
  \o (IF HasContent(message) THEN <<TextPart(message.content)>> ELSE <<>>)

\* a handler that builds the thought part without looking at the signature
AssistantPartsUnsigned(enableThinking, message, context) ==
  (IF enableThinking
   THEN <<CreateThoughtPart("", ThoughtSignature(message, context))>> ELSE <<>>)
  \o (IF HasContent(message) THEN <<TextPart(message.content)>> ELSE <<>>)

\* the parts of handleAssistantMessage / handleClaudeAssistantMessage before
\* the tool calls: the thought part when thinking is enabled and a signature
\* resolves, then the text part
AssistantParts(enableThinking, message, context) ==
  (IF enableThinking /\ ThoughtSignature(message, context) # ""
   THEN <<CreateThoughtPart("", ThoughtSignature(message, context))>> ELSE <<>>)
  \o (IF HasContent(message) THEN <<TextPart(message.content)>> ELSE <<>>)

\* if (!enableThinking && parts[0]) delete parts[0].thoughtSignature
StripFirstSignature(enableThinking, parts) ==
  IF ~enableThinking /\ parts # <<>>
  THEN [parts EXCEPT ![1].thoughtSignature = ""] ELSE parts

\* pushModelMessage: are the tool calls appended to the last message
Merges(toolCalls, hasContent, contents) ==
  /\ contents # <<>>
  /\ contents[Len(contents)].role = "model"
  /\ toolCalls # <<>>
  /\ ~hasContent

\* a message of its own for every assistant message
PushModelMessageAlone(parts, toolCalls, hasContent, contents) ==
  Append(contents, [role |-> "model", parts |-> parts \o toolCalls])

\* pushModelMessage
PushModelMessage(parts, toolCalls, hasContent, contents) ==
  IF Merges(toolCalls, hasContent, contents)
  THEN [contents EXCEPT ![Len(contents)].parts = @ \o toolCalls]
  ELSE Append(contents, [role |-> "model", parts |-> parts \o toolCalls])

\* the parts pushModelMessage puts into the contents
PushedParts(parts, toolCalls, hasContent, contents) ==
  IF Merges(toolCalls, hasContent, contents) THEN toolCalls ELSE parts \o toolCalls

\* a user message whose text is taken as it is
PushUserMessageAsIs(extracted, contents) ==
  Append(contents,
    [role |-> "user",
     parts |-> (IF extracted.text = "" THEN <<>> ELSE <<TextPart(extracted.text)>>)
               \o extracted.images])

\* pushUserMessage
PushUserMessage(extracted, contents) ==
  Append(contents,
    [role |-> "user",
     parts |-> <<TextPart(IF extracted.text = "" THEN " " ELSE extracted.text)>>
               \o extracted.images])

\* the name of the first function-call part with the id among the parts
RECURSIVE NameInParts(_, _)
NameInParts(toolCallId, parts) ==
  IF parts = <<>> THEN ""
  ELSE IF Head(parts).kind = "functionCall" /\ Head(parts).id = toolCallId
  THEN Head(parts).name
  ELSE NameInParts(toolCallId, Tail(parts))

HasCall(toolCallId, parts) ==
  \E j \in 1..Len(parts) : parts[j].kind = "functionCall" /\ parts[j].id = toolCallId

\* findFunctionNameById: the messages from the last to the first, the parts
\* of a model-role message from the first to the last
RECURSIVE FindFunctionNameById(_, _)
FindFunctionNameById(toolCallId, contents) ==
  IF contents = <<>> THEN ""
  ELSE IF /\ contents[Len(contents)].role = "model"
          /\ HasCall(toolCallId, contents[Len(contents)].parts)
  THEN NameInParts(toolCallId, contents[Len(contents)].parts)
  ELSE FindFunctionNameById(toolCallId, SubSeq(contents, 1, Len(contents) - 1))

\* pushFunctionResponse: is the response appended to the last message
AppendsResponse(contents) ==
  /\ contents # <<>>
  /\ contents[Len(contents)].role = "user"
  /\ \E i \in 1..Len(contents[Len(contents)].parts) :
       contents[Len(contents)].parts[i].kind = "functionResponse"

\* a message of its own for every function response
PushFunctionResponseAlone(id, name, content, contents) ==
  Append(contents, [role |-> "user", parts |-> <<FunctionResponsePart(id, name, content)>>])

\* pushFunctionResponse
PushFunctionResponse(id, name, content, contents) ==
  IF AppendsResponse(contents)
  THEN [contents EXCEPT ![Len(contents)].parts =
          Append(@, FunctionResponsePart(id, name, content))]
  ELSE Append(contents, [role |-> "user", parts |-> <<FunctionResponsePart(id, name, content)>>])

\* the reads of the signature cache in one call of getSignatureContext
ReadsOfContext(reads, hasTools, partsBuilt) ==
  [reasoning |-> reads.reasoning + (IF config.useCachedSignature THEN 1 ELSE 0),
   tool |-> reads.tool +
     (IF config.useCachedSignature /\ (~config.cacheOnlyToolSignatures \/ hasTools)
      THEN 1 ELSE 0),
   afterPart |-> reads.afterPart \/ (config.useCachedSignature /\ partsBuilt)]

\* what the encoding of one message is remembered by
Turn(message, context, parts, merged) ==
  [message |-> message, context |-> context, parts |-> parts, merged |-> merged]

NoContext == [reasoningSignature |-> "", toolSignature |-> ""]

\* the message the loop is at
MessageAt(turns, messages) == messages[Len(turns) + 1]

\* the loop body for role user (and, in the OpenAI loop, system)
EncodeUserMessage ==
  /\ encPc = "encoding"
  /\ Len(encTurns) < Len(encMessages)
  /\ \E message \in {MessageAt(encTurns, encMessages)} :
       /\ message.role \in {"user", "system"}
       /\ encContents' = PushUserMessage(ExtractImages(message), encContents)
       /\ encTurns' = Append(encTurns,
            Turn(message, NoContext,
                 PushUserMessage(ExtractImages(message), <<>>)[1].parts, FALSE))
  /\ UNCHANGED <<mlVars, requestVars, exVars, callVars, encPc, encProtocol, encThinking,
                 encHasTools, encMessages, encReads>>

\* the loop body for a tool result: handleToolCall / handleClaudeToolResult
EncodeToolMessage ==
  /\ encPc = "encoding"
  /\ Len(encTurns) < Len(encMessages)
  /\ \E message \in {MessageAt(encTurns, encMessages)} :
     \E functionName \in {FindFunctionNameById(message.toolCallId, encContents)} :
       /\ message.role = "tool"
       /\ encContents' = PushFunctionResponse(message.toolCallId, functionName,
                                              message.content, encContents)
       /\ encTurns' = Append(encTurns,
            Turn(message, NoContext,
                 <<FunctionResponsePart(message.toolCallId, functionName, message.content)>>,
                 AppendsResponse(encContents)))
  /\ UNCHANGED <<mlVars, requestVars, exVars, callVars, encPc, encProtocol, encThinking,
                 encHasTools, encMessages, encReads>>

\* the loop body for role assistant: handleAssistantMessage /
\* handleClaudeAssistantMessage
EncodeAssistantMessage ==
  /\ encPc = "encoding"
  /\ Len(encTurns) < Len(encMessages)
  /\ \E message \in {MessageAt(encTurns, encMessages)} :
     \E context \in {GetSignatureContext(signatureCache, EncSession, EncModel, encHasTools)} :
     \E toolCalls \in {AssistantToolCalls(encProtocol, encThinking, message, context)} :
     \E parts \in {StripFirstSignature(encThinking,
                      AssistantParts(encThinking, message, context))} :
       /\ message.role = "assistant"
       /\ encReads' = ReadsOfContext(encReads, encHasTools, encContents # <<>>)
       /\ encContents' = PushModelMessage(parts, toolCalls, HasContent(message), encContents)
       /\ encTurns' = Append(encTurns,
            Turn(message, context,
                 PushedParts(parts, toolCalls, HasContent(message), encContents),
                 Merges(toolCalls, HasContent(message), encContents)))
  /\ UNCHANGED <<mlVars, requestVars, exVars, callVars, encPc, encProtocol, encThinking,
                 encHasTools, encMessages>>

\* the loop is over: buildRequestBody
EncodeDone ==
  /\ encPc = "encoding"
  /\ Len(encTurns) = Len(encMessages)
  /\ encPc' = "done"
  /\ UNCHANGED <<mlVars, requestVars, exVars, callVars, encProtocol, encThinking, encHasTools,
                 encMessages, encContents, encTurns, encReads>>

\* the cache of the session before the request: empty, or one entry
EncoderCaches ==
  {[k \in CacheKeys |-> NoEntry],
   SetSignature([k \in CacheKeys |-> NoEntry], EncSession, EncModel, "cached", " ",
                TRUE, FALSE)}

\* nothing else is going on while a request is encoded
EncoderAlone ==
  /\ RequestIdle
  /\ CallsIdle
  /\ exPc = [e \in Exchanges |-> "idle"]
  /\ exRequest = [e \in Exchanges |-> NoRequest]
  /\ exError = [e \in Exchanges |-> NoExchangeError]
  /\ exRaised = [e \in Exchanges |-> NoApiError]
  /\ exProcessor = [e \in Exchanges |-> NoProcessor]
  /\ exData = [e \in Exchanges |-> NoData]
  /\ cacheWrites = [e \in Exchanges |-> 0]
  /\ disabledTokens = 0
  /\ encPc = "encoding"
  /\ encContents = <<>>
  /\ encTurns = <<>>
  /\ encReads = NoReads

\* a request with signatures on its messages, under every policy
InitEncode ==
  /\ ModelListIdle
  /\ EncoderAlone
  /\ config \in Configs
  /\ signatureCache \in EncoderCaches
  /\ encProtocol \in Protocols
  /\ encThinking \in BOOLEAN
  /\ encHasTools \in BOOLEAN
  /\ encMessages \in Conversations(Messages, MaxMessages)

NextEncode ==
  \/ EncodeUserMessage
  \/ EncodeToolMessage
  \/ EncodeAssistantMessage
  \/ EncodeDone

SpecEncode == InitEncode /\ [][NextEncode]_vars

\* a request for a thinking model whose conversation is about tool calls and
\* their results: only the fallback signature is in use
InitEncodeTools ==
  /\ ModelListIdle
  /\ EncoderAlone
  /\ config = [useCachedSignature |-> FALSE, useFallbackSignature |-> TRUE,
               cacheOnlyToolSignatures |-> FALSE]
  /\ signatureCache = [k \in CacheKeys |-> NoEntry]
  /\ encProtocol \in Protocols
  /\ encThinking = TRUE
  /\ encHasTools = TRUE
  /\ encMessages \in Conversations(ToolTurnMessages(encProtocol), MaxToolTurns)

SpecEncodeTools == InitEncodeTools /\ [][NextEncode]_vars

\* ------------------------------------------------------------------------
\* Properties of FingerprintRequester.request
\* ------------------------------------------------------------------------

\* C1: the request settles with the outcome of whichever of the timeout,
\* abort, spawn error and close events occurred first; the events after it
\* leave the outcome as it is.
C1_FirstEventDecides ==
  promise.state # "pending" => (events # <<>> /\ settledBy = events[1])

\* C2: once the timeout timer or the abort signal has fired, the progress
\* callback is not invoked again and the stream's chunk list does not grow.
C2_NoProgressAfterCancel ==
  [][(timeoutId = "fired" \/ aborted) =>
       (progressLog' = progressLog /\ Len(sr'.chunks) <= Len(sr.chunks))]_vars

\* C3: once the header terminator has been found the timeout timer is
\* cancelled, and it does not fire in any later step of the request.
C3_TimerCancelledByHeaders ==
  [][parse'.headersParsed =>
       (timeoutId' # "armed" /\ (timeoutId' = "fired" => timeoutId = "fired"))]_vars

\* C3 witness: the headers are parsed, the timer is cleared and the body is
\* still streaming in after two body chunks.
C3_Witness ==
  /\ parse.headersParsed
  /\ timeoutId = "cleared"
  /\ Len(parse.bodyChunks) = 2
  /\ closeState = "open"
  /\ promise.state = "pending"

\* C4: when the timeout is the first event of the request (it fires before
\* the headers are parsed, before any abort, spawn error or close), the
\* subprocess is killed and the request is rejected with ECONNABORTED.
C4_TimeoutRejects ==
  (events # <<>> /\ events[1] = "timeout") =>
     (killSent /\ promise.state = "rejected" /\ promise.error.code = "ECONNABORTED")

\* C4 witness: the timer fired first, the killed subprocess closed afterwards,
\* and the request stays rejected with the timeout error.
C4_Witness ==
  /\ events = <<"timeout", "close">>
  /\ exitCode = KilledBySignal
  /\ ~parse.headersParsed
  /\ promise.state = "rejected"
  /\ promise.error.message = <<"Request timeout">>

\* the body bytes of a raw response: what follows the first CRLF CRLF
RawBody(bytes) == DropFirst(bytes, IndexOf(bytes, CRLFCRLF) + 4)

\* the outcome of the request when the raw response arrives as one chunk
WholeOutcome(c, bytes) ==
  LET p == OnStdoutData(InitialParse, bytes).p
      body == Concat(p.bodyChunks)
  IN CloseOutcome(c, p, IF NeedsGunzip(c, p.responseHeaders) THEN AfterGunzip(body) ELSE body)

\* the subprocess ran to its end with exit code 0 and the 'close' handler
\* settled the request
CompletedNormally == settledBy = "close" /\ exitCode = 0 /\ closeState = "closed"

\* C6: however the raw response is split into chunks, the request ends with
\* the same status, status text, headers and body as when the response
\* arrives in one chunk.
C6_SplitInvariance == CompletedNormally => promise = WholeOutcome(call, raw)

\* C7: when the subprocess exits with a non-zero code the request is
\* rejected whatever arrived on stdout, and the error the 'close' handler
\* rejects with has the kind ECONNABORTED for code 3, ERR_CONFIG for code 4
\* and ERR_NETWORK for any other code (a timeout, abort or spawn error that
\* came first has already rejected the request with its own kind).
C7_ExitCodeKinds ==
  (closeState = "closed" /\ exitCode # 0) =>
     /\ promise.state = "rejected"
     /\ settledBy = "close" =>
          /\ promise.error.exitCode = exitCode
          /\ exitCode = 3 => promise.error.code = "ECONNABORTED"
          /\ exitCode = 4 => promise.error.code = "ERR_CONFIG"
          /\ exitCode \notin {3, 4} => promise.error.code = "ERR_NETWORK"

\* C7 witness: the subprocess wrote a full response and then exited with
\* code 4; the request is rejected with ERR_CONFIG.
C7_Witness ==
  /\ closeState = "closed"
  /\ exitCode = 4
  /\ parse.headersParsed
  /\ parse.bodyChunks # <<>>
  /\ settledBy = "close"
  /\ promise.error.code = "ERR_CONFIG"

\* C8: on a non-zero exit the message of the error is the `error` field of
\* the JSON object on stderr, the raw stderr text when it is not valid JSON,
\* and "Process exited with code N" when stderr is empty.
C8_ExitMessage ==
  (closeState = "closed" /\ exitCode # 0 /\ settledBy = "close") =>
     /\ stderrData = <<>> =>
          promise.error.message = <<"Process exited with code ", ToString(exitCode)>>
     /\ stderrData = StderrJson => promise.error.message = <<"boom">>
     /\ stderrData \notin {<<>>, StderrJson} => promise.error.message = stderrData

\* C8 witness: the JSON object arrived on stderr and its error field is the
\* message of the rejected error.
C8_Witness ==
  /\ closeState = "closed"
  /\ exitCode = 3
  /\ settledBy = "close"
  /\ stderrData = StderrJson
  /\ promise.error.message = <<"boom">>
  /\ promise.error.errorType = <<"TIMEOUT">>

\* C8 witness for the text that is not JSON
C8_WitnessRaw ==
  /\ closeState = "closed"
  /\ settledBy = "close"
  /\ stderrData = StderrTruncated
  /\ promise.error.message = StderrTruncated

\* the body of a gzip-declared response could not be decompressed
GunzipFailed ==
  /\ CompletedNormally
  /\ NeedsGunzip(call, parse.responseHeaders)
  /\ ~GunzipOk(Concat(parse.bodyChunks))

\* C9: when the decompression of a gzip-declared body fails, the request is
\* not rejected: it resolves with the body bytes exactly as they were
\* received.
C9_GzipFallbackRaw ==
  GunzipFailed =>
     (promise.state = "resolved" /\ Utf8Encode(promise.response.data) = RawBody(raw))

\* the chunks passed to onData, in the order of the calls
RECURSIVE OnDataChunks(_)
OnDataChunks(log) ==
  IF log = <<>> THEN <<>>
  ELSE (IF Head(log).cb = "onData" THEN <<Head(log).chunk>> ELSE <<>>)
       \o OnDataChunks(Tail(log))

CallbackNames(log) == {log[i].cb : i \in 1..Len(log)}

NonSuccessStatus == parse.headersParsed /\ parse.responseStatus \notin 200..299

\* C10: in a streaming call a non-2xx status does not end the stream and does
\* not make it an error: each body chunk is passed to onData in order, no
\* status error is raised, and when the subprocess exits with code 0 the
\* stream ends by onEnd and not by onError.
C10_StreamIgnoresStatus ==
  (call = "fetchStream" /\ registered /\ NonSuccessStatus) =>
     /\ promise.error.code \notin {"ERR_BAD_REQUEST", "ERR_BAD_RESPONSE"}
     /\ Len(progressLog) = Len(parse.bodyChunks)
     /\ OnDataChunks(calls) = [i \in 1..Len(progressLog) |-> progressLog[i].chunk]
     /\ CompletedNormally =>
          /\ promise.state = "resolved"
          /\ calls[Len(calls)].cb = "onEnd"
          /\ "onError" \notin CallbackNames(calls)
          /\ sr.status = parse.responseStatus

\* C10 witness: a 404 response whose body came in two chunks, both passed to
\* onData, and the stream ended by onEnd.
C10_Witness ==
  /\ call = "fetchStream"
  /\ registered
  /\ parse.responseStatus = 404
  /\ CompletedNormally
  /\ Len(OnDataChunks(calls)) = 2
  /\ calls[Len(calls)].cb = "onEnd"

\* the chunks of the progress events, in the order of the calls
DeliveredChunks == [i \in 1..Len(progressLog) |-> progressLog[i].chunk]

\* the whole stdout of the subprocess has been handled
StdoutDrained == procOut = <<>> /\ stdoutPipe = <<>>

\* C11: the progress callback is called once per received body chunk, in
\* order and never before the headers are parsed; the `loaded` count of each
\* call is the total length of the chunks delivered up to it, and the
\* concatenation of the delivered chunks is the response body.
C11_ProgressPerChunk ==
  HasProgress(call) =>
     /\ progressLog # <<>> => parse.headersParsed
     /\ Len(progressLog) = Len(parse.bodyChunks)
     /\ \A i \in 1..Len(progressLog) :
          progressLog[i].loaded = Len(Concat(SubSeq(DeliveredChunks, 1, i)))
     /\ (StdoutDrained /\ parse.headersParsed) =>
          Concat(DeliveredChunks) = Utf8Decode(RawBody(raw))

\* the text() promises the handle answers for: the pending one it holds and
\* the ones created after the stream ended
HeldTextPromises ==
  {i \in 1..Len(textPromises) : i >= sr.textPromiseResolve}

\* C12: once the stream has ended successfully, text() is resolved with the
\* concatenation of the received chunks in arrival order, for a call made
\* before the end and for a call made after it; once the stream has failed,
\* text() is rejected with the terminal error, for a call made before or
\* after the failure, with or without registered callbacks.  (Of several
\* calls pending at once the handle holds the last one, see C32.)
C12_TextSettles ==
  (call = "fetchStream" /\ sr.ended) =>
     \A i \in HeldTextPromises :
        /\ promise.state = "resolved" =>
             textPromises[i] = TextResolved(Concat(DeliveredChunks))
        /\ promise.state = "rejected" =>
             textPromises[i] = TextRejected(promise.error)

\* C12 witness: text() was called while the stream was running; the body
\* came in two chunks and the stream ended successfully.
C12_Witness ==
  /\ call = "fetchStream"
  /\ CompletedNormally
  /\ sr.textPromiseResolve = 1
  /\ Len(progressLog) = 2
  /\ textPromises[1].state = "resolved"
  /\ textPromises[1].text = Concat(DeliveredChunks)
  /\ textPromises[1].text # <<>>

\* C12 witness for the failure: text() was called after the timeout had
\* failed the stream, and is rejected with the timeout error.
C12_WitnessRejected ==
  /\ call = "fetchStream"
  /\ settledBy = "timeout"
  /\ sr.textPromiseResolve = 0
  /\ Len(textPromises) = 1
  /\ textPromises[1] = TextRejected(TimeoutError)

\* the error kinds of a subprocess that ran and exited
ExitedKinds ==
  {"ECONNABORTED", "ERR_CONFIG", "ERR_NETWORK", "ERR_BAD_RESPONSE", "ERR_BAD_REQUEST"}

\* the 'error' event has occurred
ErrorEventSeen == \E i \in 1..Len(events) : events[i] = "error"

\* C14: the 'error' event of a subprocess that could not be started cancels
\* the timeout timer and, when no timeout or abort came before it, rejects
\* the request with the kind ERR_SPAWN; that kind is none of the kinds the
\* 'close' handler gives to a subprocess that ran and exited.
C14_SpawnErrorKind ==
  /\ ErrorEventSeen =>
       /\ timeoutId # "armed"
       /\ promise.state = "rejected"
       /\ events[1] = "error" => (settledBy = "error" /\ promise.error.code = "ERR_SPAWN")
  /\ settledBy = "error" => promise.error.code \notin ExitedKinds
  /\ (settledBy = "close" /\ promise.state = "rejected") => promise.error.code \in ExitedKinds

\* C14 witness: the spawn failed, the 'error' handler rejected the request
\* and cleared the timer, and the 'close' event that followed changed nothing.
C14_Witness ==
  /\ events = <<"error", "close">>
  /\ timeoutId = "cleared"
  /\ promise = Rejected(SpawnError)
  /\ settledBy = "error"

\* ------------------------------------------------------------------------
\* Properties of concurrent calls of request
\* ------------------------------------------------------------------------

\* the subprocesses that call r has a handler on
ProcsOf(r) == {p \in 1..Len(procs) : r \in procs[p].listeners}

\* the calls that passed the URL check
Started == {r \in Requests : rqPc[r] \in {"running", "closed"}}

\* the locals of a call after the chunks, fed in order from the start
RECURSIVE FeedAll(_, _)
FeedAll(p, chunks) ==
  IF chunks = <<>> THEN p ELSE FeedAll(OnStdoutData(p, Head(chunks)).p, Tail(chunks))

\* C13: a call of request that passes the URL check spawns exactly one
\* subprocess, writes exactly one request document to its stdin and ends
\* the stdin; a call without URL spawns none.  Concurrent calls never share
\* a subprocess or parse state: the locals of a call are the result of
\* feeding it the chunks of its own subprocess, and its response is the
\* response to its own document.
C13_OneProcessPerCall ==
  /\ Len(procs) = Cardinality(Started)
  /\ \A r \in Requests \ Started : ProcsOf(r) = {} /\ rqProc[r] = 0
  /\ \A r \in Started :
       /\ ProcsOf(r) = {rqProc[r]}
       /\ procs[rqProc[r]].listeners = {r}
       /\ procs[rqProc[r]].stdin = <<RequestDocument(r, rqUrl[r])>>
       /\ procs[rqProc[r]].stdinEnded
       /\ rqParse[r] = FeedAll(InitialParse, procs[rqProc[r]].emitted)
       /\ Concat(procs[rqProc[r]].emitted) \o procs[rqProc[r]].out
            = ResponseOf(RequestDocument(r, rqUrl[r]))
       /\ rqPc[r] = "closed" =>
            rqResult[r] = WholeOutcome("fetch", ResponseOf(RequestDocument(r, rqUrl[r])))

\* C13 witness: two calls for different addresses run at the same time; the
\* first has received the head of its response, the second its whole
\* response, each in the locals of its own call.
C13_Witness ==
  /\ rqPc = [r \in Requests |-> "running"]
  /\ rqUrl[1] = "u1" /\ rqUrl[2] = "u2"
  /\ rqProc[1] # rqProc[2]
  /\ Len(procs[rqProc[1]].emitted) = 1
  /\ procs[rqProc[1]].out # <<>>
  /\ rqParse[1].headerBuffer # <<>>
  /\ ~rqParse[1].headersParsed
  /\ procs[rqProc[2]].out = <<>>
  /\ rqParse[2].responseStatus = 500

\* ------------------------------------------------------------------------
\* Properties of the non-streaming exchange
\* ------------------------------------------------------------------------

\* C5: setSignature is called only after the exchange has completed and its
\* response has been parsed; an exchange that timed out, was cancelled or
\* failed never reaches the write, and encoding a request does not write.
C5_CacheWrittenAfterSuccess ==
  \A e \in Exchanges :
    /\ cacheWrites[e] > 0 => (exPc[e] = "done" /\ exError[e] = NoExchangeError)
    /\ exError[e] # NoExchangeError => (exPc[e] \in {"failed", "thrown"} /\ cacheWrites[e] = 0)
    /\ exPc[e] \in {"idle", "encoded", "posted", "parsed"} => cacheWrites[e] = 0

\* C5 witness: one exchange timed out and was thrown out of without a write,
\* the other completed and wrote its signature.
C5_Witness ==
  /\ exPc[1] = "thrown"
  /\ exError[1].code = "ECONNABORTED"
  /\ cacheWrites[1] = 0
  /\ exPc[2] = "done"
  /\ cacheWrites[2] = 1
  /\ signatureCache[CacheKey("s1", "gemini-3-pro-high")].signature = "sig-a"

\* ------------------------------------------------------------------------
\* Properties of handleApiError
\* ------------------------------------------------------------------------

\* the exchanges that handleApiError has thrown out of
Thrown == {e \in Exchanges : exPc[e] = "thrown"}

\* C15: for a 403 whose body has the caller-permission marker handleApiError
\* throws the context-too-large error and does not disable the token; for
\* any other 403 it disables the token exactly once and throws the
\* account-disabled error; for another status it never disables the token.
C15_DisableOnPlain403 ==
  /\ disabledTokens =
       Cardinality({e \in Thrown : exError[e].status = 403 /\ ~exError[e].marker})
  /\ \A e \in Thrown :
       /\ exRaised[e].status = exError[e].status
       /\ (exError[e].status = 403 /\ exError[e].marker) =>
            exRaised[e].message = "context-too-large"
       /\ (exError[e].status = 403 /\ ~exError[e].marker) =>
            exRaised[e].message = "account-disabled"
       /\ exError[e].status # 403 => exRaised[e].message = "request-failed"
  /\ \A e \in Exchanges \ Thrown : exRaised[e] = NoApiError

\* C15 witness: one exchange failed with a marked 403 and one with a plain
\* 403; the token was disabled once.
C15_Witness ==
  /\ Thrown = Exchanges
  /\ exError[1].status = 403 /\ exError[1].marker
  /\ exError[2].status = 403 /\ ~exError[2].marker
  /\ exRaised[1].message = "context-too-large"
  /\ exRaised[2].message = "account-disabled"
  /\ disabledTokens = 1

\* ------------------------------------------------------------------------
\* Properties of the request encoders
\* ------------------------------------------------------------------------

\* all parts of the canonical contents, message after message
RECURSIVE AllParts(_)
AllParts(contents) ==
  IF contents = <<>> THEN <<>> ELSE Head(contents).parts \o AllParts(Tail(contents))

ThoughtParts(parts) == {i \in 1..Len(parts) : IsThought(parts[i])}

\* the assistant turns encoded so far
AssistantTurns == {i \in 1..Len(encTurns) : encTurns[i].message.role = "assistant"}

\* the sources a signature can come from
CachedSignature == signatureCache[CacheKey(EncSession, EncModel)].signature

CacheAvailable == config.useCachedSignature /\ CachedSignature # ""

FallbackAvailable == config.useFallbackSignature

\* C16: an assistant turn encoded with thinking disabled produces no thought
\* part (and no signed function-call part), whatever signatures the message,
\* the cache and the fallback offer and whatever the policy switches are.
C16_NoThoughtWithoutThinking ==
  ~encThinking =>
     /\ ThoughtParts(AllParts(encContents)) = {}
     /\ \A i \in AssistantTurns :
          \A j \in 1..Len(encTurns[i].parts) :
             /\ ~IsThought(encTurns[i].parts[j])
             /\ encTurns[i].parts[j].thoughtSignature = ""

\* C16 witness: thinking is disabled while the message, its tool call, the
\* cache and the fallback all offer a signature; the encoded turn has a text
\* part and a function-call part.
C16_Witness ==
  /\ encPc = "done"
  /\ ~encThinking
  /\ CacheAvailable /\ FallbackAvailable
  /\ Len(encTurns) = 1
  /\ encTurns[1].message.thoughtSignature = "inbound-message"
  /\ encTurns[1].message.toolCalls # <<>>
  /\ encTurns[1].message.toolCalls[1].thoughtSignature = "inbound-tool"
  /\ Len(encTurns[1].parts) = 2
  /\ encTurns[1].context.reasoningSignature = "cached"

\* no source offers a signature for the thought part of the message
NoSignatureResolves(message) ==
  message.thoughtSignature = "" /\ ~CacheAvailable /\ ~FallbackAvailable

SignatureResolves(message) == ~NoSignatureResolves(message)

\* the signature the precedence inbound > cached > fallback resolves to
ResolvedThoughtSignature(message) ==
  IF message.thoughtSignature # "" THEN message.thoughtSignature
  ELSE IF CacheAvailable THEN CachedSignature
  ELSE FallbackThoughtSignature

\* the turn put exactly one thought part into the contents, with the
\* resolved signature
OneResolvedThought(turn) ==
  /\ Cardinality(ThoughtParts(turn.parts)) = 1
  /\ \A j \in ThoughtParts(turn.parts) :
       turn.parts[j].thoughtSignature = ResolvedThoughtSignature(turn.message)

\* C18 as stated: every assistant turn encoded with thinking enabled and a
\* resolvable signature puts exactly one thought part with the resolved
\* signature into the contents, at every position of the conversation, a
\* tool-call-only turn that follows another assistant turn included.
C18_ThoughtPerTurn ==
  encThinking =>
    \A i \in AssistantTurns :
       SignatureResolves(encTurns[i].message) => OneResolvedThought(encTurns[i])

\* C18 amended: every assistant turn encoded with thinking enabled and a
\* resolvable signature that starts a model message of its own puts exactly
\* one thought part with the resolved signature into the contents; a
\* tool-call-only turn that directly follows a model message is merged into
\* that message and contributes its function-call parts only.
C18_ThoughtPerUnmergedTurn ==
  encThinking =>
    \A i \in AssistantTurns :
       /\ (SignatureResolves(encTurns[i].message) /\ ~encTurns[i].merged)
            => OneResolvedThought(encTurns[i])
       /\ encTurns[i].merged =>
            /\ encTurns[i].parts # <<>>
            /\ \A j \in 1..Len(encTurns[i].parts) :
                 encTurns[i].parts[j].kind = "functionCall"

\* C18 witness: with thinking enabled and the cache holding a signature, an
\* assistant message with text got its thought part with the cached
\* signature, and the tool-call-only message after it, which carries a
\* signature of its own, was merged into the same model message.
C18_Witness ==
  /\ encPc = "done"
  /\ encThinking
  /\ CacheAvailable
  /\ Len(encTurns) = 2
  /\ encTurns[1].message.role = "assistant"
  /\ encTurns[1].message.thoughtSignature = ""
  /\ ~encTurns[1].merged
  /\ encTurns[1].parts = <<CreateThoughtPart("", "cached"), TextPart("Hi")>>
  /\ encTurns[2].message.thoughtSignature = "inbound-message"
  /\ encTurns[2].merged
  /\ Len(encContents) = 1
  /\ Len(encContents[1].parts) = 3

\* the static signatures of the fallback
FallbackSignatures == {FallbackThoughtSignature, FallbackToolSignature}

\* an explicit signature came in with the tool call or with its message
InboundAvailable(message, toolCall) ==
  toolCall.thoughtSignature # "" \/ message.thoughtSignature # ""

InboundSignatures(message, toolCall) ==
  {toolCall.thoughtSignature, message.thoughtSignature} \ {""}

\* the signature follows the precedence inbound > cached > fallback
FollowsPrecedence(signature, inbound) ==
  /\ inbound # {} => signature \in inbound
  /\ signature = CachedSignature => (inbound = {} /\ CacheAvailable)
  /\ signature \in FallbackSignatures =>
       (inbound = {} /\ ~CacheAvailable /\ FallbackAvailable)

\* C19: with thinking enabled, the signature of every thought part and of
\* every function-call part follows the precedence: an explicit signature
\* of the inbound message or tool call, then the cached signature when cache
\* reads are enabled, then the static fallback when fallback is enabled; a
\* lower source is never used while a higher one is available.
C19_SignaturePrecedence ==
  encThinking =>
    \A i \in AssistantTurns :
       /\ \A j \in ThoughtParts(encTurns[i].parts) :
            FollowsPrecedence(encTurns[i].parts[j].thoughtSignature,
                              {encTurns[i].message.thoughtSignature} \ {""})
       /\ \A j \in 1..Len(encTurns[i].parts) :
            encTurns[i].parts[j].kind = "functionCall" =>
              \A t \in 1..Len(encTurns[i].message.toolCalls) :
                 encTurns[i].message.toolCalls[t].id = encTurns[i].parts[j].id =>
                   (encTurns[i].parts[j].thoughtSignature # "" =>
                      FollowsPrecedence(encTurns[i].parts[j].thoughtSignature,
                        InboundSignatures(encTurns[i].message,
                                          encTurns[i].message.toolCalls[t])))

\* C20: while one request is encoded the signature cache is read at most
\* once for the reasoning signature and at most once for the tool
\* signature, and no read comes after a part of the contents was built.
C20_CacheReadOnce ==
  /\ encReads.reasoning <= 1
  /\ encReads.tool <= 1
  /\ ~encReads.afterPart

FunctionCallParts(parts) == {i \in 1..Len(parts) : parts[i].kind = "functionCall"}

\* C21: a function-call part of the encoded contents carries a signature
\* only if thinking is enabled for the request; with thinking disabled no
\* function-call part has a signature, whatever the tool call, the message,
\* the cache and the fallback offer.
C21_SignedCallsOnlyWhenThinking ==
  \A i \in FunctionCallParts(AllParts(encContents)) :
     AllParts(encContents)[i].thoughtSignature # "" => encThinking

\* C21 witness: a Claude request with thinking disabled whose only message is
\* a tool call with a signature of its own, while the cache and the fallback
\* offer tool signatures too; the part of the call is unsigned.
C21_Witness ==
  /\ encPc = "done"
  /\ encProtocol = "claude"
  /\ ~encThinking
  /\ CacheAvailable /\ FallbackAvailable /\ ~config.cacheOnlyToolSignatures
  /\ Len(encTurns) = 1
  /\ encTurns[1].message.toolCalls # <<>>
  /\ encTurns[1].message.toolCalls[1].thoughtSignature = "inbound-tool"
  /\ encTurns[1].context.toolSignature = "cached"
  /\ encContents = <<[role |-> "model", parts |-> <<CreateFunctionCallPart("t1", "f", "")>>]>>

\* the message the step encodes, when the step encodes one
Encoded == encTurns'[Len(encTurns')].message

\* the step encodes an assistant message with tool calls and without text
\* while the last message of the contents is a model-role message
EncodesToolCallsAfterModel ==
  /\ Len(encTurns') = Len(encTurns) + 1
  /\ Encoded.role = "assistant"
  /\ Encoded.toolCalls # <<>>
  /\ IsBlank(Encoded.content)
  /\ encContents # <<>>
  /\ encContents[Len(encContents)].role = "model"

\* the parts are the function calls of the tool calls, in their order
AreCallsOf(parts, toolCalls) ==
  /\ Len(parts) = Len(toolCalls)
  /\ \A j \in 1..Len(parts) :
       /\ parts[j].kind = "functionCall"
       /\ parts[j].id = toolCalls[j].id
       /\ parts[j].name = toolCalls[j].name

\* the parts after the first n
DropParts(parts, n) == SubSeq(parts, n + 1, Len(parts))

\* the function-call parts among the parts, in their order
RECURSIVE CallsAmong(_)
CallsAmong(parts) ==
  IF parts = <<>> THEN <<>>
  ELSE (IF Head(parts).kind = "functionCall" THEN <<Head(parts)>> ELSE <<>>)
       \o CallsAmong(Tail(parts))

\* C22: a tool-call-only assistant message that directly follows a
\* model-role message appends its function-call parts to that message and
\* creates no new message; two consecutive tool-call-only assistant messages
\* A, B are encoded as one model-role message that holds the function calls
\* A and B in that order.
C22_MergeLaw ==
  /\ [][EncodesToolCallsAfterModel =>
          /\ Len(encContents') = Len(encContents)
          /\ \A k \in 1..(Len(encContents) - 1) : encContents'[k] = encContents[k]
          /\ encContents'[Len(encContents)].role = "model"
          /\ SubSeq(encContents'[Len(encContents)].parts, 1,
                    Len(encContents[Len(encContents)].parts))
               = encContents[Len(encContents)].parts
          /\ AreCallsOf(DropParts(encContents'[Len(encContents)].parts,
                                  Len(encContents[Len(encContents)].parts)),
                        Encoded.toolCalls)]_vars
  /\ [](\A i \in 1..(Len(encTurns) - 1) :
          (/\ encTurns[i].message.role = "assistant"
           /\ encTurns[i + 1].message.role = "assistant"
           /\ encTurns[i].message.toolCalls # <<>>
           /\ encTurns[i + 1].message.toolCalls # <<>>
           /\ IsBlank(encTurns[i].message.content)
           /\ IsBlank(encTurns[i + 1].message.content)
           /\ Len(encTurns) = i + 1)
          => /\ encTurns[i + 1].merged
             /\ Len(encContents) <= i
             /\ \E n \in 0..Len(encContents[Len(encContents)].parts) :
                  AreCallsOf(
                    DropParts(CallsAmong(encContents[Len(encContents)].parts), n),
                    encTurns[i].message.toolCalls \o encTurns[i + 1].message.toolCalls))

\* C22 witness: the messages A (call t1 of f, no text) and B (call t2 of g,
\* blank text) of a request for a thinking model were encoded as one
\* model-role message: the thought part of A, then the calls A and B.
C22_Witness ==
  /\ encPc = "done"
  /\ Len(encTurns) = 2
  /\ encTurns[1].message.content = ""
  /\ encTurns[2].message.content = " "
  /\ encTurns[2].merged
  /\ Len(encContents) = 1
  /\ encContents[1].parts =
       <<CreateThoughtPart("", FallbackThoughtSignature),
         CreateFunctionCallPart("t1", "f", FallbackToolSignature),
         CreateFunctionCallPart("t2", "g", FallbackToolSignature)>>

\* the tool calls of the assistant messages among the first n messages of
\* the request, in the order they were made
RECURSIVE CallsMade(_)
CallsMade(n) ==
  IF n = 0 THEN <<>>
  ELSE CallsMade(n - 1) \o
       (IF encTurns[n].message.role = "assistant" THEN encTurns[n].message.toolCalls
        ELSE <<>>)

\* the name of the most recent call with the id, "" when there is none
RECURSIVE MostRecentName(_, _)
MostRecentName(toolCallId, made) ==
  IF made = <<>> THEN ""
  ELSE IF made[Len(made)].id = toolCallId THEN made[Len(made)].name
  ELSE MostRecentName(toolCallId, SubSeq(made, 1, Len(made) - 1))

ToolTurns == {i \in 1..Len(encTurns) : encTurns[i].message.role = "tool"}

\* C23: a tool result gets the name of the function call with its call id:
\* of the most recent one when the id was used more than once, also when
\* the call is not in the nearest model-role message, and the empty name
\* when no call has the id.
C23_ToolResultName ==
  \A i \in ToolTurns :
     /\ Len(encTurns[i].parts) = 1
     /\ encTurns[i].parts[1].kind = "functionResponse"
     /\ encTurns[i].parts[1].id = encTurns[i].message.toolCallId
     /\ encTurns[i].parts[1].name =
          MostRecentName(encTurns[i].message.toolCallId, CallsMade(i - 1))

\* how many tool results the request has in a row before message n + 1
RECURSIVE RunBefore(_)
RunBefore(n) ==
  IF n = 0 \/ encTurns[n].message.role # "tool" THEN 0 ELSE 1 + RunBefore(n - 1)

\* the last message of the contents is a user-role message that holds a
\* function response
EndsWithResponses(contents) ==
  /\ contents # <<>>
  /\ contents[Len(contents)].role = "user"
  /\ \E j \in 1..Len(contents[Len(contents)].parts) :
       contents[Len(contents)].parts[j].kind = "functionResponse"

\* C24: a run of consecutive tool results is one user-role message whose
\* parts are the function responses of the run in input order; a tool
\* result starts a new message only when the last message is not a user-role
\* message that holds a function response, and no message before the last
\* one is changed by it.
C24_ToolResultRuns ==
  /\ [](RunBefore(Len(encTurns)) > 0 =>
          \E last \in {encContents[Len(encContents)]} :
          \E run \in {RunBefore(Len(encTurns))} :
             /\ last.role = "user"
             /\ Len(last.parts) = run
             /\ \A k \in 1..run :
                  /\ last.parts[k].kind = "functionResponse"
                  /\ last.parts[k].id =
                       encTurns[Len(encTurns) - run + k].message.toolCallId
                  /\ last.parts[k].text =
                       encTurns[Len(encTurns) - run + k].message.content)
  /\ [][(Len(encTurns') = Len(encTurns) + 1 /\ Encoded.role = "tool") =>
          /\ (Len(encContents') = Len(encContents) + 1) = ~EndsWithResponses(encContents)
          /\ (Len(encContents') = Len(encContents)) = EndsWithResponses(encContents)
          /\ \A k \in 1..(Len(encContents) - 1) : encContents'[k] = encContents[k]]_vars

\* C24 witness: after an assistant message that calls f as t1, the results
\* of t1 and of t2 were encoded into one user-role message, in that order.
C24_Witness ==
  /\ encPc = "done"
  /\ Len(encTurns) = 3
  /\ encTurns[1].message.role = "assistant"
  /\ Len(encContents) = 2
  /\ encContents[2] =
       [role |-> "user",
        parts |-> <<FunctionResponsePart("t1", "f", "42"),
                    FunctionResponsePart("t2", "", "42")>>]

\* the user-role messages of the contents that come from a user or system
\* message: those that hold no function response
UserTextMessages ==
  {k \in 1..Len(encContents) :
     /\ encContents[k].role = "user"
     /\ \A j \in 1..Len(encContents[k].parts) :
          encContents[k].parts[j].kind # "functionResponse"}

UserTurns == {i \in 1..Len(encTurns) : encTurns[i].message.role \in {"user", "system"}}

\* the message has no text: its string content is empty, or its array
\* content has no text item with text
HasNoText(message) ==
  IF message.array
  THEN \A j \in 1..Len(message.items) :
         message.items[j].type = "text" => message.items[j].text = ""
  ELSE message.content = ""

\* C25: every user-role message encoded from a user or system message has
\* parts, and its first part is a text part with non-empty text; a message
\* without text, also one that carries only images, gets a single space.
C25_UserPartsNonEmpty ==
  /\ \A k \in UserTextMessages :
       /\ encContents[k].parts # <<>>
       /\ encContents[k].parts[1].kind = "text"
       /\ encContents[k].parts[1].text # ""
       /\ \A j \in 2..Len(encContents[k].parts) : encContents[k].parts[j].kind = "image"
  /\ Cardinality(UserTextMessages) = Cardinality(UserTurns)
  /\ \A i \in UserTurns :
       /\ encTurns[i].parts # <<>>
       /\ HasNoText(encTurns[i].message) => encTurns[i].parts[1] = TextPart(" ")

\* C25 witness: a user message whose content is one image was encoded as a
\* user-role message of a single-space text part and the image part.
C25_Witness ==
  /\ encPc = "done"
  /\ Len(encTurns) = 1
  /\ encTurns[1].message.array
  /\ encTurns[1].message.items = <<ImageItem("img")>>
  /\ encContents = <<[role |-> "user", parts |-> <<TextPart(" "), ImagePart("img")>>]>>

\* the tool signature that the cache and the fallback resolve to
ResolvedToolSignature ==
  IF CacheAvailable THEN CachedSignature
  ELSE IF FallbackAvailable THEN FallbackToolSignature
  ELSE ""

\* C26: with the switch cacheOnlyToolSignatures on and no tools in the
\* request, getSignatureContext returns no tool signature, neither cached
\* nor fallback, and does not read the tool signature from the cache; with
\* the switch off the tool signature is resolved with and without tools.
C26_ToolSignatureGate ==
  /\ (config.cacheOnlyToolSignatures /\ ~encHasTools) =>
       /\ encReads.tool = 0
       /\ \A i \in AssistantTurns : encTurns[i].context.toolSignature = ""
  /\ ~config.cacheOnlyToolSignatures =>
       /\ \A i \in AssistantTurns :
            encTurns[i].context.toolSignature = ResolvedToolSignature
       /\ config.useCachedSignature => encReads.tool = Cardinality(AssistantTurns)

\* C26 witness: the switch is on, the request has no tools, the cache holds
\* a signature and cache reads and fallback are enabled: the context of the
\* encoded assistant message has the cached reasoning signature and no tool
\* signature, after one read for the reasoning signature and none for the
\* tool signature.
C26_Witness ==
  /\ encPc = "done"
  /\ config.cacheOnlyToolSignatures /\ ~encHasTools
  /\ CacheAvailable /\ FallbackAvailable
  /\ Len(encTurns) = 1
  /\ encTurns[1].message.role = "assistant"
  /\ encTurns[1].context = [reasoningSignature |-> "cached", toolSignature |-> ""]
  /\ encReads = [reasoning |-> 1, tool |-> 0, afterPart |-> FALSE]

\* ------------------------------------------------------------------------
\* Properties of the cache write of generateAssistantResponseNoStream
\* ------------------------------------------------------------------------

\* the exchange returns from generateAssistantResponseNoStream in this step
Returns(e) == exPc[e] = "parsed" /\ exPc'[e] = "done"

\* the tool calls of the response that carry a signature
SignedCalls(data) == {i \in 1..Len(data.toolCalls) : data.toolCalls[i] # ""}

\* the signature observed in the response: of the last tool call that
\* carries one, otherwise the reasoning signature
ObservedSignature(data) ==
  IF SignedCalls(data) # {}
  THEN data.toolCalls[CHOOSE i \in SignedCalls(data) : \A j \in SignedCalls(data) : j <= i]
  ELSE data.reasoningSignature

\* the entry an exchange writes for the response
EntryOf(request, data) ==
  [signature |-> ObservedSignature(data),
   content |-> IF data.reasoningContent = "" THEN " " ELSE data.reasoningContent,
   hasTools |-> data.toolCalls # <<>>,
   isImageModel |-> IsImageModel(request.model)]

\* the exchange has what a write needs
Writable(request, data) ==
  request.sessionId # "" /\ request.model # "" /\ ObservedSignature(data) # ""

\* C27: when a successful exchange returns and the caching policy permits a
\* write, the entry of (sessionId, model) becomes the signature of the last
\* tool call that carries one, otherwise the reasoning signature, together
\* with the reasoning text or a single space; nothing is written when no
\* signature was observed or the session id or the model is missing.
C27_CacheWriteValue ==
  [][\A e \in Exchanges :
       (Returns(e) /\ exData[e].shouldCache) =>
         IF Writable(exRequest[e], exData[e])
         THEN /\ signatureCache' =
                   [signatureCache EXCEPT
                      ![CacheKey(exRequest[e].sessionId, exRequest[e].model)] =
                         EntryOf(exRequest[e], exData[e])]
              /\ cacheWrites'[e] = cacheWrites[e] + 1
         ELSE /\ signatureCache' = signatureCache
              /\ cacheWrites' = cacheWrites]_vars

\* C27 witness: the response had the tool calls <<"sig-a", "">> and neither
\* reasoning signature nor reasoning text; the exchange wrote sig-a with a
\* single space.
C27_Witness ==
  /\ exPc[1] = "done"
  /\ cacheWrites = <<1, 0>>
  /\ signatureCache[CacheKey("s1", "gemini-3-pro-high")] =
       [signature |-> "sig-a", content |-> " ", hasTools |-> TRUE, isImageModel |-> FALSE]

\* the entries one exchange can write for the key
EntriesOf(key) ==
  {EntryOf([sessionId |-> key[1], model |-> key[2]], data) : data \in ParsedResponses}

\* the exchange writes its entry in this step
Writes(e) == Returns(e) /\ cacheWrites'[e] = cacheWrites[e] + 1

\* C28: the cache changes only in the step in which an exchange processes
\* its response, and after that step the entry of its key is the entry of
\* that exchange alone, whatever another exchange for the same key wrote
\* before: the last write wins and an entry is never a mixture of two writes.
C28_LastWriteWins ==
  /\ [][\A e \in Exchanges :
          Writes(e) =>
            /\ signatureCache'[CacheKey(exRequest[e].sessionId, exRequest[e].model)]
                 = EntryOf(exRequest[e], exData[e])
            /\ \A k \in CacheKeys \ {CacheKey(exRequest[e].sessionId, exRequest[e].model)} :
                 signatureCache'[k] = signatureCache[k]]_vars
  /\ [][signatureCache' # signatureCache => \E e \in Exchanges : Writes(e)]_vars
  /\ [](\A k \in CacheKeys : signatureCache[k] \in EntriesOf(k) \cup {NoEntry})

\* C28 witness: both exchanges were for session s1 and the same model and
\* both wrote; the entry is the one of the response with the reasoning
\* signature and no tool calls, nothing of the other write is left in it.
C28_Witness ==
  /\ exPc = <<"done", "done">>
  /\ cacheWrites = <<1, 1>>
  /\ signatureCache[CacheKey("s1", "gemini-3-pro-image")] = NoEntry
  /\ signatureCache[CacheKey("s1", "gemini-3-pro-high")] =
       [signature |-> "sig-r", content |-> "thinking", hasTools |-> FALSE,
        isImageModel |-> FALSE]

\* ------------------------------------------------------------------------
\* Properties of generateAssistantResponse
\* ------------------------------------------------------------------------

\* handleApiError runs for the exchange in this step
Translates(e) == exPc[e] = "failed" /\ exPc'[e] = "thrown"

\* C29: when a streaming exchange fails, processor.close() has been called
\* exactly once when handleApiError translates the error, so before the
\* error reaches the caller and before the token can be disabled; the error
\* that reaches the caller is the translated upstream error, also when
\* close() threw.
C29_CloseBeforePropagation ==
  /\ [][\A e \in Exchanges : Translates(e) => exProcessor[e].closes = 1]_vars
  /\ [][disabledTokens' # disabledTokens =>
          \E e \in Exchanges : Translates(e) /\ exProcessor[e].closes = 1]_vars
  /\ [](\A e \in Exchanges :
          /\ exProcessor[e].closes <= 1
          /\ exPc[e] \in {"failed", "thrown"} => exProcessor[e].closes = 1
          /\ exPc[e] = "thrown" =>
               /\ exError[e] # NoExchangeError
               /\ exRaised[e] = ApiError(exError[e])
               /\ exRaised[e].status = exError[e].status)

\* C29 witness: the stream of exchange 1 failed with a plain 403, close()
\* was called once and threw, and the caller got the account-disabled error
\* after the token was disabled.
C29_Witness ==
  /\ exPc[1] = "thrown"
  /\ exError[1] = [code |-> "ERR_BAD_REQUEST", status |-> 403, marker |-> FALSE]
  /\ exProcessor[1] = [closes |-> 1, threw |-> TRUE]
  /\ exRaised[1] = [message |-> "account-disabled", status |-> 403]
  /\ disabledTokens = 1

\* ------------------------------------------------------------------------
\* Properties of the status validation of the 'close' handler
\* ------------------------------------------------------------------------

\* the status the upstream answered with
UpstreamStatus ==
  IF raw = RespNotFound THEN 404 ELSE IF raw = RespServerError THEN 500 ELSE 200

\* the subprocess exited with code 0, the 'close' handler settled the request
\* and the upstream status fails the validation of the call
StatusFailed == CompletedNormally /\ ~ValidateStatus(call, UpstreamStatus)

\* the kind of the error by the status
StatusErrorCode(status) == IF status >= 500 THEN "ERR_BAD_RESPONSE" ELSE "ERR_BAD_REQUEST"

\* C30: a buffered request whose subprocess exits with code 0 and whose
\* status fails the validation is rejected with ERR_BAD_RESPONSE for a
\* status of 500 or above and ERR_BAD_REQUEST otherwise, and the error
\* carries the response with the upstream status and the body exactly as it
\* was received.
C30_StatusErrorCarriesResponse ==
  StatusFailed =>
     /\ promise.state = "rejected"
     /\ promise.error.code = StatusErrorCode(UpstreamStatus)
     /\ promise.error.response.status = UpstreamStatus
     /\ Utf8Encode(promise.error.response.data) = RawBody(raw)

\* ------------------------------------------------------------------------
\* getAvailableModels and the model list cache
\* ------------------------------------------------------------------------

\* how far Date.now() advances
MaxClock == 4

\* getModelCacheTTL(), in ticks of the clock
ModelCacheTTL == 2

\* DEFAULT_MODELS, two of its entries
DEFAULT_MODELS == <<"claude-opus-4-5", "gemini-2.5-pro">>

\* what the upstream's answer parses to: a falsy value (null), or an object
\* whose models have the given keys
UpstreamData ==
  {[falsy |-> TRUE, models |-> <<>>]}
  \cup {[falsy |-> FALSE, models |-> ids] :
          ids \in {<<>>, <<"new-model">>, <<"gemini-2.5-pro", "new-model">>}}

IsIn(id, ids) == \E i \in 1..Len(ids) : ids[i] = id

\* getDefaultModelList()
GetDefaultModelList(now) ==
  [source |-> "default", ids |-> DEFAULT_MODELS, created |-> now]

\* the result getAvailableModels builds from the upstream's models: their
\* keys, then the default models that are not among them
BuildModelList(data, now) ==
  LET Missing(id) == ~IsIn(id, data.models)
  IN [source |-> "upstream",
      ids |-> data.models \o SelectSeq(DEFAULT_MODELS, Missing),
      created |-> now]

\* modelListCache && (now - modelListCacheTime) < ttl
CacheValid(cache, time, now, ttl) == cache # NoList /\ (now - time) < ttl

\* a cleanup that also clears a cache that is exactly ttl old
CacheExpiredAtTTL(cache, time, now, ttl) == cache # NoList /\ (now - time) >= ttl

\* modelListCache && (now - modelListCacheTime) > ttl
CacheExpired(cache, time, now, ttl) == cache # NoList /\ (now - time) > ttl

\* time passes
Tick ==
  /\ clock < MaxClock
  /\ clock' = clock + 1
  /\ UNCHANGED <<requestVars, exVars, callVars, encVars, modelListCache,
                 modelListCacheTime, mlPc, mlNow, mlError, mlResult, mlTokenRequests,
                 mlUpstreamRequests, mlOp>>

\* getAvailableModels up to its first await: the cache check, then the call
\* of tokenManager.getToken()
GetAvailableModels(m) ==
  /\ mlPc[m] = "idle"
  /\ mlNow' = [mlNow EXCEPT ![m] = clock]
  /\ IF CacheValid(modelListCache, modelListCacheTime, clock, ModelCacheTTL)
     THEN /\ mlResult' = [mlResult EXCEPT ![m] = modelListCache]
          /\ mlPc' = [mlPc EXCEPT ![m] = "returned"]
          /\ UNCHANGED mlTokenRequests
     ELSE /\ mlTokenRequests' = [mlTokenRequests EXCEPT ![m] = @ + 1]
          /\ mlPc' = [mlPc EXCEPT ![m] = "token"]
          /\ UNCHANGED mlResult
  /\ mlOp' = "read"
  /\ UNCHANGED <<requestVars, exVars, callVars, encVars, clock, modelListCache,
                 modelListCacheTime, mlError, mlUpstreamRequests>>

\* getToken() has answered: without a token the default list is returned,
\* with one fetchRawModels sends the request to the upstream
TokenArrives(m) ==
  /\ mlPc[m] = "token"
  /\ \E token \in BOOLEAN :
       IF ~token
       THEN /\ mlResult' = [mlResult EXCEPT ![m] = GetDefaultModelList(clock)]
            /\ mlPc' = [mlPc EXCEPT ![m] = "returned"]
            /\ UNCHANGED mlUpstreamRequests
       ELSE /\ mlUpstreamRequests' = [mlUpstreamRequests EXCEPT ![m] = @ + 1]
            /\ mlPc' = [mlPc EXCEPT ![m] = "fetching"]
            /\ UNCHANGED mlResult
  /\ UNCHANGED <<requestVars, exVars, callVars, encVars, clock, modelListCache,
                 modelListCacheTime, mlNow, mlError, mlTokenRequests, mlOp>>

\* fetchRawModels returns the parsed answer; the rest of getAvailableModels
FetchResolves(m) ==
  /\ mlPc[m] = "fetching"
  /\ \E data \in UpstreamData :
       IF data.falsy
       THEN /\ mlResult' = [mlResult EXCEPT ![m] = GetDefaultModelList(clock)]
            /\ UNCHANGED <<modelListCache, modelListCacheTime, mlOp>>
       ELSE /\ mlResult' = [mlResult EXCEPT ![m] = BuildModelList(data, clock)]
            /\ modelListCache' = BuildModelList(data, clock)
            /\ modelListCacheTime' = mlNow[m]
            /\ mlOp' = "fetch"
  /\ mlPc' = [mlPc EXCEPT ![m] = "returned"]
  /\ UNCHANGED <<requestVars, exVars, callVars, encVars, clock, mlNow, mlError,
                 mlTokenRequests, mlUpstreamRequests>>

\* the request of fetchRawModels fails: its catch block is entered
FetchFails(m) ==
  /\ mlPc[m] = "fetching"
  /\ \E error \in ExchangeErrors : mlError' = [mlError EXCEPT ![m] = error]
  /\ mlPc' = [mlPc EXCEPT ![m] = "caught"]
  /\ UNCHANGED <<requestVars, exVars, callVars, encVars, clock, modelListCache,
                 modelListCacheTime, mlNow, mlResult, mlTokenRequests,
                 mlUpstreamRequests, mlOp>>

\* the catch block of fetchRawModels: `await handleApiError(error, token)`,
\* and what getAvailableModels does with what fetchRawModels gives it
FetchRawModelsCatch(m) ==
  /\ mlPc[m] = "caught"
  /\ disabledTokens' = IF DisablesToken(mlError[m]) THEN disabledTokens + 1 ELSE disabledTokens
  /\ IF AfterHandleApiError = "thrown"
     THEN /\ mlPc' = [mlPc EXCEPT ![m] = "thrown"]
          /\ UNCHANGED mlResult
     ELSE /\ mlPc' = [mlPc EXCEPT ![m] = "returned"]
          /\ mlResult' = [mlResult EXCEPT ![m] = GetDefaultModelList(clock)]
  /\ UNCHANGED <<requestVars, callVars, encVars, config, exPc, exRequest, exError,
                 exRaised, exData, signatureCache, cacheWrites, exProcessor, clock,
                 modelListCache, modelListCacheTime, mlNow, mlError, mlTokenRequests,
                 mlUpstreamRequests, mlOp>>

\* the callback registered by registerMemoryCleanup
MemoryCleanup ==
  /\ IF CacheExpired(modelListCache, modelListCacheTime, clock, ModelCacheTTL)
     THEN modelListCache' = NoList /\ modelListCacheTime' = 0
     ELSE UNCHANGED <<modelListCache, modelListCacheTime>>
  /\ mlOp' = "cleanup"
  /\ UNCHANGED <<requestVars, exVars, callVars, encVars, clock, mlPc, mlNow, mlError,
                 mlResult, mlTokenRequests, mlUpstreamRequests>>

\* clearModelListCache()
ClearModelListCache ==
  /\ modelListCache' = NoList
  /\ modelListCacheTime' = 0
  /\ mlOp' = "clear"
  /\ UNCHANGED <<requestVars, exVars, callVars, encVars, clock, mlPc, mlNow, mlError,
                 mlResult, mlTokenRequests, mlUpstreamRequests>>

InitModels ==
  /\ ExchangesIdle
  /\ RequestIdle
  /\ CallsIdle
  /\ EncoderIdle
  /\ ModelListIdle

NextModels ==
  \/ Tick
  \/ MemoryCleanup
  \/ ClearModelListCache
  \/ \E m \in ModelCalls :
       \/ GetAvailableModels(m)
       \/ TokenArrives(m)
       \/ FetchResolves(m)
       \/ FetchFails(m)
       \/ FetchRawModelsCatch(m)

SpecModels == InitModels /\ [][NextModels]_vars

\* ------------------------------------------------------------------------
\* Properties of getAvailableModels
\* ------------------------------------------------------------------------

\* the upstream request of the call has failed and the call has ended
FetchFailed(m) == mlError[m] # NoExchangeError /\ mlPc[m] \in {"returned", "thrown"}

\* C31: when the upstream model-list request fails, getAvailableModels
\* returns the default model list instead of failing.
C31_DefaultListOnFailure ==
  \A m \in ModelCalls :
    FetchFailed(m) =>
      /\ mlPc[m] = "returned"
      /\ mlResult[m].source = "default"
      /\ mlResult[m].ids = DEFAULT_MODELS

\* the cached list was stored less than the TTL ago
FreshlyCached ==
  modelListCache # NoList /\ (clock - modelListCacheTime) < ModelCacheTTL

\* a call of getAvailableModels starts
Starts(m) == mlPc[m] = "idle" /\ mlPc'[m] # "idle"

\* C40: while a model list fetched less than the TTL ago is cached,
\* getAvailableModels returns that list without asking for a token and
\* without contacting the upstream; the cache is only ever assigned a list
\* built from a successful upstream fetch (never the default list); and the
\* registered memory cleanup clears the cache only when it is older than the
\* TTL.
C40_ModelListCache ==
  /\ [][\A m \in ModelCalls :
          (Starts(m) /\ FreshlyCached) =>
             /\ mlPc'[m] = "returned"
             /\ mlResult'[m] = modelListCache
             /\ mlTokenRequests'[m] = 0
             /\ mlUpstreamRequests'[m] = 0]_vars
  /\ [](\A m \in ModelCalls :
          (mlPc[m] = "returned" /\ mlTokenRequests[m] = 0) => mlUpstreamRequests[m] = 0)
  /\ [](modelListCache # NoList => modelListCache.source = "upstream")
  /\ [][(modelListCache' # modelListCache /\ modelListCache' # NoList) =>
          \E m \in ModelCalls :
            /\ mlPc[m] = "fetching" /\ mlPc'[m] = "returned"
            /\ mlError[m] = NoExchangeError
            /\ mlResult'[m] = modelListCache'
            /\ modelListCache'.source = "upstream"]_vars
  /\ [][(mlOp' = "cleanup" /\ modelListCache' # modelListCache) =>
          (clock - modelListCacheTime) > ModelCacheTTL]_vars

\* C40 witness: the first call fetched and cached a list; later, within the
\* TTL, the second call returned the cached list without a token request.
C40_Witness ==
  /\ mlPc = [m \in ModelCalls |-> "returned"]
  /\ mlUpstreamRequests[1] = 1
  /\ mlTokenRequests[2] = 0
  /\ mlUpstreamRequests[2] = 0
  /\ mlNow[2] > modelListCacheTime
  /\ mlResult[2] = modelListCache
  /\ mlResult[2].ids = <<"new-model">> \o DEFAULT_MODELS

\* C40 witness for the cleanup: it has cleared a cache older than the TTL
C40_WitnessCleanup ==
  /\ mlOp = "cleanup"
  /\ modelListCache = NoList
  /\ mlResult[1].source = "upstream"
  /\ clock > ModelCacheTTL

\* ------------------------------------------------------------------------
\* Properties of antigravity_fetch
\* ------------------------------------------------------------------------

\* C39: antigravity_fetch resolves for every exchange whose subprocess exits
\* with code 0, whatever the response status: for a non-2xx response its
\* status is the upstream status (and so its `ok` field is false).
C39_FetchResolvesAnyStatus ==
  (call = "fetch" /\ CompletedNormally) =>
     /\ promise.state = "resolved"
     /\ promise.response.status = UpstreamStatus

\* ------------------------------------------------------------------------
\* Properties of the canonical messages
\* ------------------------------------------------------------------------

\* C38: every canonical message the OpenAI and Claude encoders produce,
\* model-role as well as user-role, has a non-empty parts list, whatever
\* the conversation: also for an assistant message with empty text, no tool
\* calls and no resolvable signature.
C38_PartsNonEmpty ==
  \A i \in 1..Len(encContents) : encContents[i].parts # <<>>

\* ------------------------------------------------------------------------
\* request() with unusual inputs: a subprocess that never completes the
\* headers, and a signal that is aborted before request() is called
\* ------------------------------------------------------------------------

\* what a subprocess writes that never emits CRLF CRLF: nothing, "HTTP/1.1 ",
\* and the head of RespText up to the CR of the terminating CRLF
HeadlessTexts == {<<>>, TakeFirst(RespText, 9), TakeFirst(RespText, 24)}

HeadlessPlans ==
  UNION {{[stdout |-> c, stderr |-> <<>>, exit |-> 0, spawns |-> TRUE] :
            c \in Chunkings(t, MaxSplits)} : t \in HeadlessTexts}

\* the well-formed responses in one chunk, a failing subprocess and a
\* subprocess that cannot be spawned
WholePlans ==
  {[stdout |-> <<r>>, stderr |-> <<>>, exit |-> 0, spawns |-> TRUE] : r \in RawResponses}
  \cup {[stdout |-> <<>>, stderr |-> <<StderrPlain>>, exit |-> 1, spawns |-> TRUE],
        SpawnFailurePlan}

\* the state after request() has spawned the subprocess and returned, for a
\* call from the entry points and a subprocess that follows one of the plans;
\* the onEnd callback of a streaming call may throw, and the signal of a
\* direct caller may have been aborted before the call (its 'abort' event has
\* then already been dispatched)
RequestStarted(plans, entryPoints, mayThrow, mayBeAborted) ==
  /\ ModelListIdle
  /\ ExchangesIdle
  /\ CallsIdle
  /\ EncoderIdle
  /\ call \in entryPoints
  /\ registered \in BOOLEAN
  /\ (call # "fetchStream" => registered = FALSE)
  /\ onEndThrows \in BOOLEAN
  /\ (onEndThrows => (registered /\ mayThrow))
  /\ \E plan \in plans :
       /\ raw = Concat(plan.stdout)
       /\ procOut = plan.stdout
       /\ procErr = plan.stderr
       /\ procExit = plan.exit
       /\ procState = IF plan.spawns THEN "running" ELSE "unspawned"
  /\ exitCode = NoCode
  /\ killSent = FALSE
  /\ stdoutPipe = <<>>
  /\ stderrPipe = <<>>
  /\ timeoutId = "armed"
  /\ aborted \in BOOLEAN
  /\ (aborted => (HasSignal(call) /\ mayBeAborted))
  /\ parse = InitialParse
  /\ stderrData = <<>>
  /\ closeState = "open"
  /\ promise = Pending
  /\ settledBy = "none"
  /\ events = <<>>
  /\ activeProcesses = {Proc}
  /\ progressLog = <<>>
  /\ sr = NewStreamResponse
  /\ calls = <<>>
  /\ textPromises = <<>>

InitUnusual == RequestStarted(HeadlessPlans \cup WholePlans, Calls, FALSE, TRUE)

SpecUnusual == InitUnusual /\ [][Next]_vars

\* the subprocess never wrote the header terminator
Headless == IndexOf(raw, CRLFCRLF) = -1

\* C36: if the subprocess exits with code 0 without ever emitting CRLF CRLF,
\* the request resolves with the default status 200, empty headers and an
\* empty body: none of the received bytes appear in the body, and the
\* progress callback is never invoked.
C36_HeadlessDefaults ==
  (Headless /\ exitCode = 0 /\ closeState = "closed") =>
     /\ promise.state # "pending"
     /\ settledBy = "close" =>
          /\ promise.state = "resolved"
          /\ promise.response.status = 200
          /\ promise.response.headers = <<>>
          /\ promise.response.data = <<>>
     /\ progressLog = <<>>
     /\ \A i \in 1..Len(calls) : calls[i].cb \notin {"onStart", "onData"}

\* C36 witness: the subprocess wrote "HTTP/1.1 200 OK\r\nA: b\r\n\r" in two
\* chunks and exited with code 0; the request resolved with the defaults.
C36_Witness ==
  /\ raw = TakeFirst(RespText, 24)
  /\ Len(parse.headerBuffer) = 24
  /\ closeState = "closed"
  /\ exitCode = 0
  /\ settledBy = "close"
  /\ promise.state = "resolved"
  /\ promise.response.data = <<>>
  /\ promise.response.status = 200

\* the abort event was dispatched before the request was settled
AbortedFirst ==
  /\ aborted
  /\ \/ ~(\E i \in 1..Len(events) : events[i] = "abort")
     \/ settledBy = "abort"
     \/ settledBy = "none"

\* C37: a request whose signal is aborted, before request() is called or at
\* any time before the request settles, kills its subprocess and rejects
\* with the cancel-class error ERR_CANCELED.
C37_AbortCancels ==
  (HasSignal(call) /\ AbortedFirst) =>
     /\ killSent
     /\ promise.state = "rejected"
     /\ promise.error.code = "ERR_CANCELED"

\* ------------------------------------------------------------------------
\* antigravity_fetchStream with callbacks that may throw, several calls of
\* text() and a response without body
\* ------------------------------------------------------------------------

\* "HTTP/1.1 204 N\r\n\r\n": headers and no body
RespNoContent ==
  <<72, 84, 84, 80, 47, 49, 46, 49, 32, 50, 48, 52, 32, 78, 13, 10, 13, 10>>

\* what the subprocess of a streaming call does
StreamPlans ==
  UNION {{[stdout |-> c, stderr |-> <<>>, exit |-> 0, spawns |-> TRUE] :
            c \in Chunkings(r, MaxSplits)} : r \in {RespText, RespNoContent}}
  \cup {[stdout |-> <<>>, stderr |-> <<StderrPlain>>, exit |-> 1, spawns |-> TRUE],
        SpawnFailurePlan}

\* the state after antigravity_fetchStream has returned the StreamResponse
InitStreamCall == RequestStarted(StreamPlans, {"fetchStream"}, TRUE, FALSE)

\* StreamResponse.text(), called once more
TextAgain ==
  /\ call = "fetchStream"
  /\ Len(textPromises) = MaxTextCalls
  /\ IF sr.ended
     THEN /\ textPromises' = Append(textPromises,
               IF sr.error # NoError THEN TextRejected(sr.error)
               ELSE TextResolved(sr.finalText))
          /\ sr' = sr
     ELSE /\ textPromises' = Append(textPromises, TextPending)
          /\ sr' = [sr EXCEPT !.textPromiseResolve = Len(textPromises) + 1]
  /\ UNCHANGED <<mlVars, exVars, callVars, encVars, raw, call, registered, onEndThrows,
                 procVars, killSent, timeoutId, aborted, parse, stderrData, closeState,
                 promise, settledBy, events, activeProcesses, progressLog, calls>>

NextStreamCall ==
  \/ ProcWriteStdout
  \/ ProcWriteStderr
  \/ ProcExit
  \/ ProcKilled
  \/ StdoutData
  \/ StderrData
  \/ TimerFire
  \/ ProcessError
  \/ Close
  \/ Text
  \/ TextAgain

SpecStreamCall == InitStreamCall /\ [][NextStreamCall]_vars

\* C32: if text() is called more than once on a StreamResponse before the
\* stream ends, every promise returned by those calls is settled when the
\* stream ends or fails.
C32_EveryTextPromiseSettles ==
  (call = "fetchStream" /\ sr.ended) =>
     \A i \in 1..Len(textPromises) : textPromises[i].state # "pending"

\* the calls of onEnd and onError
TerminalCalls == {i \in 1..Len(calls) : calls[i].cb \in {"onEnd", "onError"}}

\* C33: for one streaming call at most one of onEnd and onError is ever
\* invoked, and it is invoked at most once, also when a registered callback
\* throws; after onEnd has run, text() never rejects.
C33_OneTerminalCallback ==
  call = "fetchStream" =>
     /\ Cardinality(TerminalCalls) <= 1
     /\ "onEnd" \in CallbackNames(calls) =>
          \A i \in 1..Len(textPromises) : textPromises[i].state # "rejected"

\* C34: in every streaming call that ends successfully onStart has been
\* invoked exactly once, before any onData and before onEnd, also when the
\* response has headers and an empty body.
C34_OnStartFirst ==
  (call = "fetchStream" /\ registered /\ "onEnd" \in CallbackNames(calls)) =>
     /\ Cardinality({i \in 1..Len(calls) : calls[i].cb = "onStart"}) = 1
     /\ calls[1].cb = "onStart"

\* ------------------------------------------------------------------------
\* FingerprintRequester.close and the life of activeProcesses
\* ------------------------------------------------------------------------

\* a close() that clears the set without killing
CloseKillsNothing(active) == FALSE

\* this.activeProcesses.forEach(proc => proc.kill()): is the subprocess of
\* the request sent the signal
CloseKills(active) == Proc \in active

\* FingerprintRequester.close()
RequesterClose ==
  /\ ~(\E i \in 1..Len(events) : events[i] = "requester.close")
  /\ killSent' = (killSent \/ CloseKills(activeProcesses))
  /\ activeProcesses' = {}
  /\ events' = Append(events, "requester.close")
  /\ UNCHANGED <<mlVars, exVars, callVars, encVars, raw, call, registered, onEndThrows,
                 procVars, timeoutId, aborted, parse, stderrData, closeState, promise,
                 settledBy, progressLog, streamVars>>

NextLive == Next \/ RequesterClose

\* a step of the subprocess, or of a handler other than the stdout handler
\* whose event is pending
Progress ==
  \/ ProcWriteStdout
  \/ ProcWriteStderr
  \/ ProcExit
  \/ StderrData
  \/ ProcessError
  \/ Close
  \/ GunzipDone

\* a 'data' event of stdout is pending: the enabling condition of StdoutData
StdoutPending == stdoutPipe # <<>> /\ closeState = "open"

\* Node's event loop delivers every pending event to its handler, and the
\* subprocess, which has its own timeouts, keeps writing and ends; the timer,
\* the abort of the signal, text() and close() are under no obligation.  The
\* second conjunct is WF_vars(StdoutData), written with StdoutPending for
\* ENABLED <<StdoutData>>_vars
Fairness ==
  /\ WF_vars(Progress)
  /\ ([]<>~StdoutPending \/ []<><<StdoutData>>_vars)

\* the state after request() has returned, for a subprocess that writes a
\* well-formed response in one chunk, fails, or cannot be spawned
InitLive == RequestStarted(WholePlans, Calls, FALSE, FALSE)

SpecLive == InitLive /\ [][NextLive]_vars /\ Fairness

CloseCalledOnRequester == \E i \in 1..Len(events) : events[i] = "requester.close"

\* C35: every subprocess added to activeProcesses is eventually removed from
\* it after its request settles (by success, non-zero exit, timeout, abort
\* or spawn error); after close() the set is empty, and every subprocess
\* that was in it has been killed.
C35_ActiveProcessesDrain ==
  /\ (Proc \in activeProcesses) ~> (Proc \notin activeProcesses)
  /\ (promise.state # "pending") ~> (Proc \notin activeProcesses /\ closeState # "open")
  /\ [][(events' = Append(events, "requester.close")) =>
          /\ activeProcesses' = {}
          /\ Proc \in activeProcesses => killSent']_vars
  /\ [](CloseCalledOnRequester => activeProcesses = {})

\* C35 witness: close() was called while the subprocess was running; the
\* subprocess was killed by the signal and the 'close' handler has rejected
\* the request.
C35_Witness ==
  /\ events = <<"requester.close", "close">>
  /\ killSent
  /\ exitCode = KilledBySignal
  /\ activeProcesses = {}
  /\ promise.state = "rejected"

\* C35 witness for the timeout: the request was settled by the timeout and
\* its subprocess was removed later, by the 'close' handler
C35_WitnessTimeout ==
  /\ events = <<"timeout", "close">>
  /\ settledBy = "timeout"
  /\ activeProcesses = {}

====
